---- MODULE Spec2Model ----
(***************************************************************************)
(* A model of the EKW scraper (czlonkowski/kw-scrapper).                   *)
(*                                                                         *)
(* Specification Spec models one call of scrape_ekw                        *)
(* (app/core/scraper.py): the orchestration of the browser session, the    *)
(* search, the opening of the content view, the five departments and the   *)
(* response, with the portal and the browser engine as the environment.    *)
(* SpecClick models one call of click_element (app/utils/browser.py),      *)
(* SpecService several callers of scrape_ekw at the same time, SpecOwners  *)
(* the owners parse_dzial_ii finds in a table, SpecOwnerPaths its markup   *)
(* path together with its script fallback, SpecSection one call of         *)
(* process_section, SpecHeaders the header zip of parse_dzial_isp and of   *)
(* the parsers laid out like it, SpecTables extract_table_data, SpecBasis  *)
(* extract_document_basis and SpecCleaner clean_html_content               *)
(* (app/utils/html_cleaner.py). FairSpec is Spec with the assumption that  *)
(* no browser primitive is suspended for ever.                             *)
(*                                                                         *)
(* Text is modelled as a sequence of tokens (a token is a character or a   *)
(* fixed phrase); concatenation is \o and the empty string is << >>.       *)
(* Polish letters in selectors and messages are written without their      *)
(* diacritical marks.                                                      *)
(***************************************************************************)
EXTENDS Integers, Sequences, FiniteSets, TLC

VARIABLES
    request,      \* the KWRequest handed to scrape_ekw
    clean_html,   \* the clean_html argument of scrape_ekw
    pc,           \* position of the call inside scrape_ekw
    playwright,   \* local variable playwright (None or the handle)
    browser,      \* local variable browser (None or the handle)
    running,      \* browser resources started and not yet stopped
    page,         \* the page the browser currently shows
    idx,          \* position of process_all_sections in its loop
    sections,     \* the dict `result` built by process_all_sections
    pending,      \* completion of the try block, held while finally runs
    result,       \* what the caller of scrape_ekw receives
    calls,        \* log of the calls made to the collaborators
    click,        \* one call of click_element (specification SpecClick)
    input,        \* argument of a function applied on its own
    output,       \* what that function gives for it
    lookups,      \* the callers served at the same time (SpecService)
    files         \* the files in the working directory of the service

\* the variables of one call of scrape_ekw
scrapeVars == <<request, clean_html, pc, playwright, browser, running, page,
                idx, sections, pending, result, calls>>

\* the variables of the other specifications
otherVars == <<click, input, output, lookups, files>>

vars == <<scrapeVars, otherVars>>

\* the value of a variable in a specification that does not use it
Unused == "unused"

----------------------------------------------------------------------------
(* Bounds *)

\* largest number of leading zeros of the register number
MaxZeros == 2

\* largest number of error elements shown by the portal
MaxErrElems == 1

----------------------------------------------------------------------------
(* Optional values and text *)

None == [some |-> FALSE]

Some(v) == [some |-> TRUE, val |-> v]

Whitespace == {" "}

RECURSIVE LStrip(_)
LStrip(t) ==
    IF t # << >> /\ Head(t) \in Whitespace THEN LStrip(Tail(t)) ELSE t

RECURSIVE RStrip(_)
RStrip(t) ==
    IF t # << >> /\ t[Len(t)] \in Whitespace
    THEN RStrip(SubSeq(t, 1, Len(t) - 1))
    ELSE t

\* str.strip()
Strip(t) == RStrip(LStrip(t))

\* sep.join(parts)
RECURSIVE Join(_, _)
Join(parts, sep) ==
    IF parts = << >> THEN << >>
    ELSE IF Len(parts) = 1 THEN parts[1]
    ELSE parts[1] \o sep \o Join(Tail(parts), sep)

RECURSIVE Zeros(_)
Zeros(n) == IF n = 0 THEN << >> ELSE <<"0">> \o Zeros(n - 1)

\* str.lstrip('0')
RECURSIVE LStripZeros(_)
LStripZeros(t) ==
    IF t # << >> /\ Head(t) = "0" THEN LStripZeros(Tail(t)) ELSE t

----------------------------------------------------------------------------
(* Requests, exceptions, sections, responses *)

Requests ==
    { [kod_wydzialu |-> <<"W", "A", "1", "M">>,
       numer_ksiegi_wieczystej |-> Zeros(n) \o <<"5", "3">>,
       cyfra_kontrolna |-> <<"3">>] : n \in 0..MaxZeros }

\* messages carried by the exceptions of the browser engine
ExcMsgs == { << >>, <<"Timeout 15000ms exceeded.">> }

Exc(cls, msg) == [cls |-> cls, msg |-> msg]

\* `except Exception` catches everything but asyncio.CancelledError
CaughtByExceptException(e) == e.cls # "CancelledError"

\* a faulty order: departments II and III exchanged
SectionNames_swapped ==
    <<"dzial_io", "dzial_isp", "dzial_iii", "dzial_ii", "dzial_iv">>

\* the keys of the dict `sections` of process_all_sections, in its order
SectionNames == <<"dzial_io", "dzial_isp", "dzial_ii", "dzial_iii", "dzial_iv">>

SectionKeys == { SectionNames[i] : i \in 1..Len(SectionNames) }

NoSections == [k \in SectionKeys |-> None]

\* a faulty identifier: the register number without its leading zeros
KwNumber_stripped(req) ==
    req.kod_wydzialu \o <<"/">> \o LStripZeros(req.numer_ksiegi_wieczystej)
        \o <<"/">> \o req.cyfra_kontrolna

\* f"{request.kod_wydzialu}/{request.numer_ksiegi_wieczystej}/{request.cyfra_kontrolna}"
KwNumber(req) ==
    req.kod_wydzialu \o <<"/">> \o req.numer_ksiegi_wieczystej
        \o <<"/">> \o req.cyfra_kontrolna

\* ScraperResponse(...): fields that are not passed keep the default None
ScraperResponse(success, error, kw_number, secs) ==
    [success   |-> success,
     error     |-> error,
     kw_number |-> kw_number,
     dzial_io  |-> secs["dzial_io"],
     dzial_isp |-> secs["dzial_isp"],
     dzial_ii  |-> secs["dzial_ii"],
     dzial_iii |-> secs["dzial_iii"],
     dzial_iv  |-> secs["dzial_iv"]]

\* the failure returns of scrape_ekw: success=False, error, kw_number
FailureResponse(req, error) ==
    ScraperResponse(FALSE, Some(error), KwNumber(req), NoSections)

Return(response) == [kind |-> "return", response |-> response]

Raise(e) == [kind |-> "raise", exc |-> e]

NoCompletion == [kind |-> "none"]

Call(op, arg, ret) == [op |-> op, arg |-> arg, ret |-> ret]

----------------------------------------------------------------------------
(* The error strings of scrape_ekw *)

\* a faulty error string: the exception text alone
NavigationErrorText_bare(e) == e.msg

NavigationErrorText(e) == <<"Error navigating to EKW portal: ">> \o e.msg

FillErrorText(e) == <<"Error filling KW form: ">> \o e.msg

SearchClickErrorText == <<"Failed to click search button">>

SearchTimeoutText == <<"Timeout waiting for search results">>

ViewClickErrorText ==
    <<"Failed to click on 'Przegladanie aktualnej tresci KW' button">>

SectionsErrorText(e) == <<"Error processing sections: ">> \o e.msg

ScrapingErrorText(e) == <<"Error during scraping: ">> \o e.msg

\* the outer `except Exception` handler of scrape_ekw; an exception it does
\* not catch leaves the try block as it is
OuterExcept(req, e) ==
    IF CaughtByExceptException(e)
    THEN Return(FailureResponse(req, ScrapingErrorText(e)))
    ELSE Raise(e)

----------------------------------------------------------------------------
(* The page served in answer to the search, and get_error_message *)

\* error_selectors of get_error_message, in the order they are tried
ErrorSelectors == <<".error:not(.hide)", ".error-message", "#errorMessageBox">>

\* inner texts of the elements the portal may show
ElemTexts == { <<" ">>, <<" ", "Invalid KW number", " ">> }

ErrElems == [sel : 1..Len(ErrorSelectors), text : ElemTexts]

\* the page after the search was submitted: is the results indicator
\* #przyciskWydrukZwykly there, and the elements matching the error
\* selectors, in document order
SearchPages ==
    [kind    : {"search"},
     results : BOOLEAN,
     errors  : UNION { [1..n -> ErrElems] : n \in 0..MaxErrElems }]

\* the pages before the search and after the content view was opened
PortalPage == [kind |-> "portal", results |-> FALSE, errors |-> << >>]

ContentPage == [kind |-> "content", results |-> FALSE, errors |-> << >>]

NoPage == [kind |-> "blank", results |-> FALSE, errors |-> << >>]

\* page.query_selector_all(selector): the matching elements' inner texts
RECURSIVE QuerySelectorAll(_, _)
QuerySelectorAll(elems, s) ==
    IF elems = << >> THEN << >>
    ELSE IF Head(elems).sel = s
         THEN <<Head(elems).text>> \o QuerySelectorAll(Tail(elems), s)
         ELSE QuerySelectorAll(Tail(elems), s)

\* messages = [text.strip() for each element if text and text.strip()]
RECURSIVE Messages(_)
Messages(texts) ==
    IF texts = << >> THEN << >>
    ELSE IF Head(texts) # << >> /\ Strip(Head(texts)) # << >>
         THEN <<Strip(Head(texts))>> \o Messages(Tail(texts))
         ELSE Messages(Tail(texts))

\* get_error_message, from selector number s on
RECURSIVE GetErrorMessageFrom(_, _)
GetErrorMessageFrom(pg, s) ==
    IF s > Len(ErrorSelectors) THEN None
    ELSE LET messages == Messages(QuerySelectorAll(pg.errors, s))
         IN  IF messages # << >>
             THEN Some(Join(messages, <<" | ">>))
             ELSE GetErrorMessageFrom(pg, s + 1)

get_error_message(pg) == GetErrorMessageFrom(pg, 1)

----------------------------------------------------------------------------
(* Initial state: scrape_ekw(request, clean_html) has just been called *)

Init ==
    /\ request \in Requests
    /\ clean_html \in BOOLEAN
    /\ pc = "initialize_browser"
    /\ playwright = None
    /\ browser = None
    /\ running = {}
    /\ page = NoPage
    /\ idx = 1
    /\ sections = NoSections
    /\ pending = NoCompletion
    /\ result = NoCompletion
    /\ calls = << >>
    /\ click = Unused
    /\ input = Unused
    /\ output = Unused
    /\ lookups = Unused
    /\ files = Unused

\* the try block is left with completion c: control passes to finally
Leave(c) ==
    /\ pending' = c
    /\ pc' = "finally"

Log(c) == calls' = Append(calls, c)

----------------------------------------------------------------------------
(* scrape_ekw, lines 51-60: session acquisition *)

\* what initialize_browser has started when it fails at a given stage
StartedBefore(stage) ==
    CASE stage = "start"   -> {}
      [] stage = "launch"  -> {"playwright"}
      [] stage = "context" -> {"playwright", "browser"}
      [] stage = "page"    -> {"playwright", "browser"}

InitializeBrowser ==
    /\ pc = "initialize_browser"
    /\ \/ /\ playwright' = Some("pw1")
          /\ browser' = Some("br1")
          /\ running' = {"playwright", "browser"}
          /\ pc' = "navigate"
          /\ Log(Call("initialize_browser", << >>, "ok"))
          /\ UNCHANGED pending
       \/ \E stage \in {"start", "launch", "context", "page"}, m \in ExcMsgs :
            /\ running' = StartedBefore(stage)
            /\ Leave(OuterExcept(request, Exc("Exception", m)))
            /\ Log(Call("initialize_browser", << >>, "raised"))
            /\ UNCHANGED <<playwright, browser>>
    /\ UNCHANGED <<request, clean_html, page, idx, sections, result>>
    /\ UNCHANGED otherVars

(* lines 62-72: navigation to the portal *)
NavigateToPortal ==
    /\ pc = "navigate"
    /\ \/ /\ pc' = "accept_cookies"
          /\ page' = PortalPage
          /\ Log(Call("navigate_to_url", <<"ekw_portal_url">>, "ok"))
          /\ UNCHANGED pending
       \/ \E m \in ExcMsgs :
            /\ Leave(Return(FailureResponse(request,
                        NavigationErrorText(Exc("Exception", m)))))
            /\ Log(Call("navigate_to_url", <<"ekw_portal_url">>, "raised"))
            /\ UNCHANGED page
    /\ UNCHANGED <<request, clean_html, playwright, browser, running,
                   idx, sections, result>>
    /\ UNCHANGED otherVars

(* lines 74-79: cookie banner, best effort *)
AcceptCookies ==
    /\ pc = "accept_cookies"
    /\ pc' = "screenshot_initial"
    /\ \E r \in {"ok", "raised"} : Log(Call("accept_cookies", << >>, r))
    /\ UNCHANGED <<request, clean_html, playwright, browser, running,
                   page, idx, sections, pending, result>>
    /\ UNCHANGED otherVars

(* lines 81-86: diagnostic screenshot of the initial page *)
ScreenshotInitial ==
    /\ pc = "screenshot_initial"
    /\ pc' = "fill_kw_form"
    /\ \E r \in {"ok", "raised"} :
         Log(Call("screenshot", <<"debug_initial_page.png">>, r))
    /\ UNCHANGED <<request, clean_html, playwright, browser, running,
                   page, idx, sections, pending, result>>
    /\ UNCHANGED otherVars

----------------------------------------------------------------------------
(* Sections: process_section, process_all_sections, clean_scraped_data *)

\* the selectors of the five department controls, by section name
SectionSelector(name) ==
    CASE name = "dzial_io"  -> "input[value='Dzial I-O']"
      [] name = "dzial_isp" -> "input[value='Dzial I-Sp']"
      [] name = "dzial_ii"  -> "input[value='Dzial II']"
      [] name = "dzial_iii" -> "input[value='Dzial III']"
      [] name = "dzial_iv"  -> "input[value='Dzial IV']"

\* the characters of a section name
NameChars(name) ==
    CASE name = "dzial_io"  -> <<"d", "z", "i", "a", "l", "_", "i", "o">>
      [] name = "dzial_isp" -> <<"d", "z", "i", "a", "l", "_", "i", "s", "p">>
      [] name = "dzial_ii"  -> <<"d", "z", "i", "a", "l", "_", "i", "i">>
      [] name = "dzial_iii" -> <<"d", "z", "i", "a", "l", "_", "i", "i", "i">>
      [] name = "dzial_iv"  -> <<"d", "z", "i", "a", "l", "_", "i", "v">>

Lower == <<"a", "d", "i", "l", "o", "p", "s", "v", "z">>

Upper == <<"A", "D", "I", "L", "O", "P", "S", "V", "Z">>

IsLetter(c) == \E i \in 1..Len(Lower) : c = Lower[i] \/ c = Upper[i]

ToUpper(c) ==
    IF \E i \in 1..Len(Lower) : c = Lower[i]
    THEN Upper[CHOOSE i \in 1..Len(Lower) : c = Lower[i]]
    ELSE c

ToLower(c) ==
    IF \E i \in 1..Len(Upper) : c = Upper[i]
    THEN Lower[CHOOSE i \in 1..Len(Upper) : c = Upper[i]]
    ELSE c

\* str.title(): a letter is upper-cased after a non-letter (or at the
\* start) and lower-cased after a letter
Title(t) ==
    [i \in 1..Len(t) |->
        IF i = 1 \/ ~IsLetter(t[i - 1]) THEN ToUpper(t[i]) ELSE ToLower(t[i])]

\* str.replace(c, "")
RECURSIVE Remove(_, _)
Remove(t, c) ==
    IF t = << >> THEN << >>
    ELSE IF Head(t) = c THEN Remove(Tail(t), c)
    ELSE <<Head(t)>> \o Remove(Tail(t), c)

\* the section classes bound in the globals of app/core/scraper.py
SectionClasses ==
    { <<"D", "z", "i", "a", "l", "I", "O">>,
      <<"D", "z", "i", "a", "l", "I", "S", "p">>,
      <<"D", "z", "i", "a", "l", "I", "I">>,
      <<"D", "z", "i", "a", "l", "I", "I", "I">>,
      <<"D", "z", "i", "a", "l", "I", "V">> }

\* section_name.title().replace("_", "")
SectionClassName(name) == Remove(Title(NameChars(name)), "_")

\* the markup extract_html_content may return for #contentDzialu
Markups == { << >>, <<"<table>">> }

\* a section document: SectionData(content, raw_html)
SectionData(content, raw_html) == [content |-> content, raw_html |-> raw_html]

\* the content dict, abstracted to where it comes from, whether its text
\* was cleaned, and its "error" entry
Content(source, cleaned, error) ==
    [source |-> source, cleaned |-> cleaned, error |-> error]

\* parse_dzial_io .. parse_dzial_iv: parse_dzial_ii drops the markup, the
\* others keep it as raw_html
ParseSection(name, html_content) ==
    SectionData(Content("parser", FALSE, None),
                IF name = "dzial_ii" THEN None ELSE Some(html_content))

\* A result of a call: a value, or an exception
Value(v) == [raised |-> FALSE, value |-> v]

Raised(e) == [raised |-> TRUE, exc |-> e]

\* the body of the try block of process_section (lines 295-314), given what
\* the browser did: outcome is "click_failed", "raised" or "parsed"
ProcessSectionBody(name, outcome, html_content, e) ==
    CASE outcome = "click_failed" -> Value(None)
      [] outcome = "raised"       -> Raised(e)
      [] outcome = "parsed"       -> Value(Some(ParseSection(name, html_content)))

\* a faulty process_section: the body without its handler
process_section_uncaught(name, outcome, html_content, e) ==
    ProcessSectionBody(name, outcome, html_content, e)

\* process_section (lines 294-318): `except Exception` turns an exception
\* of the body into the return value None
process_section(name, outcome, html_content, e) ==
    LET r == ProcessSectionBody(name, outcome, html_content, e)
    IN  IF r.raised /\ CaughtByExceptException(r.exc) THEN Value(None) ELSE r

\* the handler of process_all_sections (lines 270-277): the class is looked
\* up in globals() under the title-cased name; a missing name is a KeyError
SectionErrorHandler(name, e) ==
    IF SectionClassName(name) \in SectionClasses
    THEN Value(Some(SectionData(
             Content("error", FALSE,
                     Some(<<"Failed to process section: ">> \o e.msg)),
             None)))
    ELSE Raised(Exc("KeyError", <<"'">> \o SectionClassName(name) \o <<"'">>))

\* one iteration of the loop of process_all_sections (lines 265-277):
\* the new `result` dict, or the exception that leaves the function
SectionIteration(res, name, r) ==
    IF r.raised
    THEN IF CaughtByExceptException(r.exc)
         THEN LET h == SectionErrorHandler(name, r.exc)
              IN  IF h.raised THEN h
                  ELSE Value([res EXCEPT ![name] = h.value])
         ELSE r
    ELSE IF r.value.some
         THEN Value([res EXCEPT ![name] = r.value])
         ELSE Value(res)

\* parse_ekw_section(raw_html), abstracted
parse_ekw_section(raw_html) == Content("parse_ekw_section", TRUE, None)

\* clean_section_data: content re-parsed from a non-empty raw_html,
\* otherwise cleaned value by value; raw_html is not copied
clean_section_data(sec) ==
    IF sec.raw_html.some /\ sec.raw_html.val # << >>
    THEN SectionData(parse_ekw_section(sec.raw_html.val), None)
    ELSE SectionData(Content(sec.content.source, TRUE, sec.content.error), None)

\* clean_scraped_data: every present section is cleaned, the keys are kept
clean_scraped_data(data) ==
    [k \in SectionKeys |->
        IF data[k].some THEN Some(clean_section_data(data[k].val)) ELSE None]

----------------------------------------------------------------------------
\* fill_kw_form, line 206: the text typed into #numerKsiegiWieczystej
FilledNumber(req) == req.numer_ksiegi_wieczystej

(* lines 88-98 and fill_kw_form: the three fields of the search form; the  *)
(* call is logged with the text typed into the register-number field       *)
FillKwForm ==
    /\ pc = "fill_kw_form"
    /\ \/ /\ pc' = "click_search"
          /\ Log(Call("fill_kw_form", FilledNumber(request), "ok"))
          /\ UNCHANGED pending
       \/ \E m \in ExcMsgs :
            /\ Leave(Return(FailureResponse(request,
                        FillErrorText(Exc("Exception", m)))))
            /\ Log(Call("fill_kw_form", << >>, "raised"))
    /\ UNCHANGED <<request, clean_html, playwright, browser, running,
                   page, idx, sections, result>>
    /\ UNCHANGED otherVars

(* lines 100-109: click_element(page, "#wyszukaj") returns a boolean; on   *)
(* True the portal has answered the search with some page                  *)
ClickSearch ==
    /\ pc = "click_search"
    /\ \/ /\ page' \in SearchPages
          /\ pc' = "wait_results"
          /\ Log(Call("click_element", <<"#wyszukaj">>, "True"))
          /\ UNCHANGED pending
       \/ /\ Leave(Return(FailureResponse(request, SearchClickErrorText)))
          /\ Log(Call("click_element", <<"#wyszukaj">>, "False"))
          /\ UNCHANGED page
    /\ UNCHANGED <<request, clean_html, playwright, browser, running,
                   idx, sections, result>>
    /\ UNCHANGED otherVars

\* wait_for_element of app/core/scraper.py (the definition the module's
\* global name is bound to when scrape_ekw runs): True when the selector
\* appears within the timeout, False otherwise, never an exception
wait_for_element(visible) == [raised |-> FALSE, value |-> visible]

(* lines 111-139: wait for the results indicator, screenshot, and the      *)
(* handler of an exception raised by either                                *)
WaitForResults ==
    /\ pc = "wait_results"
    /\ LET w == wait_for_element(page.results)
           waited == Append(calls, Call("wait_for_element",
                        <<"#przyciskWydrukZwykly">>,
                        IF w.raised THEN "raised"
                        ELSE IF w.value THEN "True" ELSE "False"))
           \* the except branch, entered with the calls made so far
           Handler(log) ==
               \/ \E m \in ExcMsgs :
                    /\ calls' = Append(log,
                           Call("screenshot", <<"debug_error_page.png">>, "raised"))
                    /\ Leave(OuterExcept(request, Exc("Exception", m)))
               \/ /\ calls' = Append(Append(log,
                           Call("screenshot", <<"debug_error_page.png">>, "ok")),
                           Call("get_error_message", << >>, "ok"))
                  /\ LET error_msg == get_error_message(page)
                     IN  IF error_msg.some /\ error_msg.val # << >>
                         THEN Leave(Return(FailureResponse(request, error_msg.val)))
                         ELSE Leave(Return(FailureResponse(request, SearchTimeoutText)))
       IN  IF w.raised
           THEN Handler(waited)
           ELSE \/ /\ calls' = Append(waited,
                          Call("screenshot", <<"debug_results_page.png">>, "ok"))
                   /\ pc' = "click_view_content"
                   /\ UNCHANGED pending
                \/ Handler(Append(waited,
                          Call("screenshot", <<"debug_results_page.png">>, "raised")))
    /\ UNCHANGED <<request, clean_html, playwright, browser, running,
                   page, idx, sections, result>>
    /\ UNCHANGED otherVars

(* lines 141-150: click_element(page, "#przyciskWydrukZwykly") returns     *)
(* True only with a content indicator detected on the page                 *)
ClickViewContent ==
    /\ pc = "click_view_content"
    /\ \/ /\ page' = ContentPage
          /\ pc' = "process_all_sections"
          /\ Log(Call("click_element", <<"#przyciskWydrukZwykly">>, "True"))
          /\ UNCHANGED pending
       \/ /\ Leave(Return(FailureResponse(request, ViewClickErrorText)))
          /\ Log(Call("click_element", <<"#przyciskWydrukZwykly">>, "False"))
          /\ UNCHANGED page
    /\ UNCHANGED <<request, clean_html, playwright, browser, running,
                   idx, sections, result>>
    /\ UNCHANGED otherVars

(* lines 152-161 and process_all_sections: one iteration of the loop over  *)
(* the five departments; the function returns after the fifth              *)
ProcessSection ==
    /\ pc = "process_all_sections"
    /\ idx \in 1..Len(SectionNames)
    /\ LET name == SectionNames[idx]
       IN  \E outcome \in {"click_failed", "raised", "parsed"},
              html_content \in Markups :
             /\ outcome # "parsed" => html_content = << >>
             /\ LET r  == process_section(name, outcome, html_content,
                                          Exc("Exception", << >>))
                    it == SectionIteration(sections, name, r)
                IN  /\ calls' = Append(Append(calls,
                           Call("click_element", <<SectionSelector(name)>>,
                                IF outcome = "click_failed" THEN "False" ELSE "True")),
                           Call("process_section", <<name>>, outcome))
                    /\ IF it.raised
                       THEN /\ Leave(IF CaughtByExceptException(it.exc)
                                     THEN Return(FailureResponse(request,
                                                   SectionsErrorText(it.exc)))
                                     ELSE Raise(it.exc))
                            /\ UNCHANGED <<idx, sections>>
                       ELSE /\ sections' = it.value
                            /\ idx' = idx + 1
                            /\ pc' = IF idx = Len(SectionNames)
                                     THEN "assemble" ELSE pc
                            /\ UNCHANGED pending
    /\ UNCHANGED <<request, clean_html, playwright, browser, running,
                   page, result>>
    /\ UNCHANGED otherVars

(* lines 163-178: optional cleaning (a failure is only logged) and the     *)
(* success response                                                        *)
AssembleResponse ==
    /\ pc = "assemble"
    /\ \E cleaning \in {"ok", "raised"} :
         /\ cleaning = "raised" =>
               /\ clean_html
               /\ \E k \in SectionKeys :
                     /\ sections[k].some
                     /\ sections[k].val.raw_html.some
                     /\ sections[k].val.raw_html.val # << >>
         /\ LET sections_data ==
                    IF clean_html /\ cleaning = "ok"
                    THEN clean_scraped_data(sections)
                    ELSE sections
            IN  Leave(Return(ScraperResponse(TRUE, None, KwNumber(request),
                                             sections_data)))
         /\ IF clean_html
            THEN Log(Call("clean_scraped_data", << >>, cleaning))
            ELSE UNCHANGED calls
    /\ UNCHANGED <<request, clean_html, playwright, browser, running,
                   page, idx, sections, result>>
    /\ UNCHANGED otherVars

----------------------------------------------------------------------------
(* Session teardown *)

\* a faulty guard: `if playwright and not browser`
FinallyCloses_onlyWithoutBrowser(pl, br) == pl.some /\ ~br.some

\* the guard of the finally block (line 189): `if browser and playwright`
FinallyCloses(pl, br) == br.some /\ pl.some

\* close_browser (app/utils/browser.py): browser.close() and then
\* playwright.stop(), neither guarded; outcome tells which of them raises
close_browser(outcome, e) ==
    IF outcome = "ok" THEN Value(None) ELSE Raised(e)

\* the resources close_browser has stopped when it ends with that outcome
StoppedBy(outcome) ==
    CASE outcome = "ok"           -> {"browser", "playwright"}
      [] outcome = "close_raises" -> {}
      [] outcome = "stop_raises"  -> {"browser"}

(* lines 187-191: the finally block; an exception raised in it replaces    *)
(* the pending return value or exception                                   *)
Finally ==
    /\ pc = "finally"
    /\ pc' = "done"
    /\ IF FinallyCloses(playwright, browser)
       THEN \E outcome \in {"ok", "close_raises", "stop_raises"} :
              LET c == close_browser(outcome,
                           Exc("Exception", <<"Connection closed">>))
              IN  /\ Log(Call("close_browser",
                              <<playwright.val, browser.val>>, outcome))
                  /\ running' = running \ StoppedBy(outcome)
                  /\ result' = IF c.raised THEN Raise(c.exc) ELSE pending
       ELSE /\ result' = pending
            /\ UNCHANGED <<calls, running>>
    /\ UNCHANGED <<request, clean_html, playwright, browser, page, idx,
                   sections, pending>>
    /\ UNCHANGED otherVars

\* the positions at which scrape_ekw is suspended in an await
SuspensionPoints ==
    {"initialize_browser", "navigate", "accept_cookies", "screenshot_initial",
     "fill_kw_form", "click_search", "wait_results", "click_view_content",
     "process_all_sections"}

(* The caller cancels the task: asyncio.CancelledError is raised at the    *)
(* await the call is suspended in; no `except Exception` catches it        *)
Cancel ==
    /\ pc \in SuspensionPoints
    /\ Leave(OuterExcept(request, Exc("CancelledError", << >>)))
    /\ IF pc = "initialize_browser"
       THEN \E stage \in {"start", "launch", "context", "page"} :
              running' = StartedBefore(stage)
       ELSE UNCHANGED running
    /\ Log(Call("cancel", << >>, pc))
    /\ UNCHANGED <<request, clean_html, playwright, browser, page, idx,
                   sections, result>>
    /\ UNCHANGED otherVars

Next ==
    \/ InitializeBrowser
    \/ NavigateToPortal
    \/ AcceptCookies
    \/ ScreenshotInitial
    \/ FillKwForm
    \/ ClickSearch
    \/ WaitForResults
    \/ ClickViewContent
    \/ ProcessSection
    \/ AssembleResponse
    \/ Finally
    \/ Cancel

Spec == Init /\ [][Next]_vars

----------------------------------------------------------------------------
(* Vocabulary of the properties *)

Finished == pc = "done"

TryBlockLeft == pc \in {"finally", "done"}

Called(c) == \E i \in 1..Len(calls) : calls[i] = c

CallsOf(op) == { i \in 1..Len(calls) : calls[i].op = op }

Initialized == Called(Call("initialize_browser", << >>, "ok"))

Cancelled == CallsOf("cancel") # {}

ScreenshotsOk == \A i \in CallsOf("screenshot") : calls[i].ret = "ok"

ViewContentClick(ret) == Call("click_element", <<"#przyciskWydrukZwykly">>, ret)

ViewContentAttempted ==
    Called(ViewContentClick("True")) \/ Called(ViewContentClick("False"))

IsDepartmentClick(c) ==
    /\ c.op = "click_element"
    /\ \E k \in SectionKeys : c.arg = <<SectionSelector(k)>>

\* the selectors of the department controls clicked so far, in call order
DepartmentClicks ==
    LET clicks == SelectSeq(calls, IsDepartmentClick)
    IN  [i \in 1..Len(clicks) |-> clicks[i].arg[1]]

DepartmentOutcome(k, outcome) == Called(Call("process_section", <<k>>, outcome))

DepartmentFailed(k) ==
    DepartmentOutcome(k, "click_failed") \/ DepartmentOutcome(k, "raised")

IsPrefix(a, b) == Len(a) <= Len(b) /\ a = SubSeq(b, 1, Len(a))

Returned == result.kind = "return"

SectionsOf(response) == [k \in SectionKeys |-> response[k]]

\* the search was answered by a page without the results indicator
NoResultsShown ==
    /\ Called(Call("wait_for_element", <<"#przyciskWydrukZwykly">>, "False"))
    /\ page.kind = "search"
    /\ ~page.results

----------------------------------------------------------------------------
(* C1: in every call in which initialize_browser returned its triple,      *)
(* close_browser is called exactly once, with the playwright and browser   *)
(* that were returned, before scrape_ekw finishes: never more than once    *)
(* at any time, and once by the time the call has finished, on the return  *)
(* paths and on the path of an uncaught exception alike.                   *)
C1_ClosedExactlyOnce ==
    /\ Cardinality(CallsOf("close_browser")) <= 1
    /\ \A i \in CallsOf("close_browser") :
          Initialized /\ calls[i].arg = <<"pw1", "br1">>
    /\ (Finished /\ Initialized) => Cardinality(CallsOf("close_browser")) = 1

\* the call ended with an uncaught exception and the session was closed
C1_Witness ==
    /\ Finished
    /\ Initialized
    /\ pending.kind = "raise"
    /\ Cardinality(CallsOf("close_browser")) = 1

(* C2: scrape_ekw never raises for an expected failure: unless the caller  *)
(* cancelled it, a finished call has returned a response, and when the     *)
(* navigation, the form fill, the search click, the wait for results, the  *)
(* view-content click or the teardown failed, that response has            *)
(* success=false and a non-empty error.                                    *)
ExpectedFailure ==
    \/ Called(Call("navigate_to_url", <<"ekw_portal_url">>, "raised"))
    \/ Called(Call("fill_kw_form", << >>, "raised"))
    \/ Called(Call("click_element", <<"#wyszukaj">>, "False"))
    \/ Called(Call("wait_for_element", <<"#przyciskWydrukZwykly">>, "False"))
    \/ Called(ViewContentClick("False"))
    \/ \E i \in CallsOf("close_browser") : calls[i].ret # "ok"

C2_NeverRaises ==
    (Finished /\ ~Cancelled) =>
        /\ Returned
        /\ ExpectedFailure =>
              /\ ~result.response.success
              /\ result.response.error.some
              /\ result.response.error.val # << >>

(* C3: every response returned with success=false has a non-empty error    *)
(* and none of the five department fields set.                             *)
C3_FailureShape ==
    (Returned /\ ~result.response.success) =>
        /\ result.response.error.some
        /\ result.response.error.val # << >>
        /\ SectionsOf(result.response) = NoSections

\* a failure response carrying the message shown by the portal
C3_Witness ==
    /\ Returned
    /\ ~result.response.success
    /\ result.response.error = Some(<<"Invalid KW number">>)

(* C4: every response returned with success=true has all five department   *)
(* fields set.                                                             *)
C4_SuccessHasAllSections ==
    (Returned /\ result.response.success) =>
        \A k \in SectionKeys : result.response[k].some

(* C5: in a success response, a department whose control could not be      *)
(* clicked or whose extraction raised is present with a non-empty error    *)
(* marker and an empty body, and every other department is present         *)
(* without an error.                                                       *)
C5_FailedSectionVisible ==
    (Returned /\ result.response.success) =>
        \A k \in SectionKeys :
            /\ result.response[k].some
            /\ IF DepartmentFailed(k)
               THEN /\ result.response[k].val.content.source = "error"
                    /\ result.response[k].val.content.error.some
                    /\ result.response[k].val.content.error.val # << >>
               ELSE ~result.response[k].val.content.error.some

(* C6: when the page that answers the search has no results indicator and  *)
(* shows a non-empty error message, the call does not go on to the         *)
(* view-content control; it leaves with success=false, that message as     *)
(* error and no click of the view-content control or of a department.      *)
(* Stated for the runs in which every diagnostic screenshot is saved.      *)
C6_SearchErrorIsTerminal ==
    (NoResultsShown /\ get_error_message(page).some /\ ScreenshotsOk) =>
        /\ pc # "click_view_content"
        /\ ~ViewContentAttempted
        /\ DepartmentClicks = << >>
        /\ (TryBlockLeft /\ ~Cancelled) =>
              pending = Return(FailureResponse(request, get_error_message(page).val))

(* C7: when the page that answers the search has no results indicator and  *)
(* no error message, the call does not go on to the view-content control;  *)
(* it leaves with success=false and the error                              *)
(* 'Timeout waiting for search results'.  Stated for the runs in which     *)
(* every diagnostic screenshot is saved.                                   *)
C7_SearchTimeoutIsTerminal ==
    (NoResultsShown /\ ~get_error_message(page).some /\ ScreenshotsOk) =>
        /\ pc # "click_view_content"
        /\ ~ViewContentAttempted
        /\ (TryBlockLeft /\ ~Cancelled) =>
              pending = Return(FailureResponse(request, SearchTimeoutText))

(* C8: every response returned, success or failure, has kw_number equal to *)
(* the three request fields as given, joined by "/", the leading zeros of  *)
(* the register number included.                                           *)
C8_KwNumberVerbatim ==
    Returned =>
        result.response.kw_number =
            request.kod_wydzialu \o <<"/">> \o request.numer_ksiegi_wieczystej
                \o <<"/">> \o request.cyfra_kontrolna

\* a response for a register number that starts with a zero
C8_Witness ==
    /\ Returned
    /\ Head(request.numer_ksiegi_wieczystej) = "0"
    /\ result.response.kw_number[6] = "0"

(* C9: the department controls are clicked one after another in the order  *)
(* I-O, I-Sp, II, III, IV, and once the content view was opened all five   *)
(* are attempted, whatever happened to the earlier ones, before the call   *)
(* leaves its try block (unless it is cancelled).                          *)
DepartmentOrder ==
    <<"input[value='Dzial I-O']", "input[value='Dzial I-Sp']",
      "input[value='Dzial II']", "input[value='Dzial III']",
      "input[value='Dzial IV']">>

C9_FixedOrderAllAttempted ==
    /\ IsPrefix(DepartmentClicks, DepartmentOrder)
    /\ (pc = "assemble" \/ (TryBlockLeft /\ ~Cancelled
                              /\ Called(ViewContentClick("True")))) =>
          DepartmentClicks = DepartmentOrder

\* all five were attempted although the first could not be clicked and
\* the third raised
C9_Witness ==
    /\ pc = "assemble"
    /\ DepartmentOutcome("dzial_io", "click_failed")
    /\ DepartmentOutcome("dzial_ii", "raised")
    /\ DepartmentClicks = DepartmentOrder

(* C10: an exception raised while one department is processed does not     *)
(* leave process_all_sections: the call still ends its try block with a    *)
(* success response (unless it is cancelled), and the departments that     *)
(* were parsed are in it.                                                  *)
C10_SectionExceptionContained ==
    (TryBlockLeft /\ ~Cancelled
        /\ \E k \in SectionKeys : DepartmentOutcome(k, "raised")) =>
        /\ pending.kind = "return"
        /\ pending.response.success
        /\ \A k \in SectionKeys :
              DepartmentOutcome(k, "parsed") => pending.response[k].some

\* department III raised, the other four are in the success response
C10_Witness ==
    /\ TryBlockLeft
    /\ DepartmentOutcome("dzial_iii", "raised")
    /\ pending.kind = "return"
    /\ pending.response.success
    /\ \A k \in SectionKeys \ {"dzial_iii"} : pending.response[k].some

----------------------------------------------------------------------------
(* click_element (app/utils/browser.py): specification SpecClick models    *)
(* one call, attempt by attempt                                            *)

\* the variables of scrape_ekw, in the specifications that do not use them
ScrapeUnused ==
    /\ request = Unused
    /\ clean_html = Unused
    /\ pc = Unused
    /\ playwright = Unused
    /\ browser = Unused
    /\ running = Unused
    /\ page = Unused
    /\ idx = Unused
    /\ sections = Unused
    /\ pending = Unused
    /\ result = Unused
    /\ calls = Unused

max_retries == 5

\* the selectors click_element is called with: the view-content button,
\* the search button, a department control
ClickSelectors == {"#przyciskWydrukZwykly", "#wyszukaj", "input[value='Dzial II']"}

is_critical_button(selector) == selector = "#przyciskWydrukZwykly"

\* lines 513-533, the pass for a control other than the view-content
\* button, given what the browser does: wait_for_selector times out (line
\* 514); page.click raises (line 524); the click is delivered and no
\* navigation follows, so leaving the `async with page.expect_navigation`
\* block of line 523, which awaits the navigation, raises TimeoutError
\* before the try of lines 527-531 is reached; or the navigation completes
StandardPass(outcome) ==
    CASE outcome = "wait_timeout" ->
           Raised(Exc("TimeoutError", <<"wait_for_selector">>))
      [] outcome = "click_raised" ->
           Raised(Exc("Error", <<"click">>))
      [] outcome = "navigation_timeout" ->
           Raised(Exc("TimeoutError", <<"expect_navigation">>))
      [] outcome = "navigated" -> Value(TRUE)

\* the approaches of the pass for the view-content button, in the order of
\* the code: the test that #przyciskWydrukZwykly exists, made when the form
\* is missing (lines 156-159; the button is not clicked there); the scan of
\* buttons and links for the text (lines 161-207),
\* the direct addresses (272-314), the click of #przyciskWydrukZwykly
\* (317-350), the form built by JavaScript (353-414), the restart from the
\* search page (417-507)
Strategies ==
    <<"id_lookup", "text_scan", "direct_url", "button_click", "js_form", "restart">>

\* what the page offers during one pass: a content indicator before
\* anything is tried; the form #command found, missing, or the evaluation
\* raising; the button found by its id; a button found by its text; the
\* register number found (in the form, or on the page); and the approach
\* that lands on a page with a content indicator, if any
CriticalEnvs ==
    [before        : BOOLEAN,
     form          : {"found", "missing", "raises"},
     button_exists : BOOLEAN,
     text_found    : BOOLEAN,
     kw_info       : BOOLEAN,
     lands         : {"none", "text_scan", "direct_url", "button_click",
                      "js_form", "restart"}]

\* the conditions under which the pass enters an approach
Tried(env, strategy) ==
    CASE strategy = "id_lookup"    -> env.form = "missing"
      [] strategy = "text_scan"    -> env.form = "missing" /\ ~env.button_exists
      [] strategy = "direct_url"   -> env.kw_info
      [] strategy = "button_click" -> env.form = "found"
      [] strategy = "js_form"      -> TRUE
      [] strategy = "restart"      -> TRUE

\* the approach reaches its check of the content indicators and one of them
\* is found
Detected(env, strategy) ==
    /\ env.lands = strategy
    /\ CASE strategy = "id_lookup"    -> FALSE
         [] strategy = "text_scan"    -> env.text_found
         [] strategy = "button_click" -> env.button_exists
         [] strategy = "restart"      -> env.kw_info /\ env.text_found
         [] OTHER -> TRUE

PassEvent(strategy, detected) == [strategy |-> strategy, detected |-> detected]

\* a faulty check: the indicator found, the pass goes on
ReturnsTrueAt_never(ev) == FALSE

\* `if element: return True` after query_selector(indicator)
ReturnsTrueAt(ev) == ev.detected

RECURSIVE RunStrategies(_, _, _)
\* lines 151-510: the approaches from the k-th on, and the exception of
\* line 510 when none of them returned
RunStrategies(env, k, events) ==
    IF k > Len(Strategies)
    THEN [events |-> events,
          result |-> Raised(Exc("Exception",
                       <<"Failed to reach KW content page after all approaches">>))]
    ELSE IF ~Tried(env, Strategies[k]) THEN RunStrategies(env, k + 1, events)
    ELSE LET ev == PassEvent(Strategies[k], Detected(env, Strategies[k]))
         IN  IF ReturnsTrueAt(ev)
             THEN [events |-> Append(events, ev), result |-> Value(TRUE)]
             ELSE RunStrategies(env, k + 1, Append(events, ev))

\* lines 94-510: the pass for the view-content button
CriticalPass(env) ==
    LET first == PassEvent("initial_check", env.before)
    IN  IF ReturnsTrueAt(first)
        THEN [events |-> <<first>>, result |-> Value(TRUE)]
        ELSE IF env.form = "raises"
        THEN [events |-> <<first>>,
              result |-> Raised(Exc("Error", <<"evaluate">>))]
        ELSE RunStrategies(env, 1, <<first>>)

\* the name of the way a pass for the view-content button ended
OutcomeOf(pass) ==
    IF ~pass.result.raised
    THEN IF Len(pass.events) = 1 THEN "already_on_content" ELSE "reached_content"
    ELSE IF pass.result.exc.cls = "Exception" THEN "exhausted" ELSE "evaluate_raised"

\* how one pass through the try block (lines 92-533) can end.  For the
\* view-content button: a content indicator is there before anything is
\* tried, or after one of the approaches, or every approach failed and the
\* exception of line 510 is raised.  For another control: wait_for_selector
\* times out, page.click raises, the click is delivered and the wait for
\* the navigation raises, or the navigation completes.
AttemptOutcomes(selector) ==
    IF is_critical_button(selector)
    THEN {"already_on_content", "reached_content", "exhausted", "evaluate_raised"}
    ELSE {"wait_timeout", "click_raised", "navigation_timeout", "navigated"}

\* the passes that end in `return True`
AttemptSucceeds(outcome) ==
    IF outcome \in AttemptOutcomes("#wyszukaj")
    THEN ~StandardPass(outcome).raised
    ELSE outcome \in {"already_on_content", "reached_content"}

\* `while retry_count < max_retries` (line 91)
LoopContinues(retry_count) == retry_count < max_retries

\* a faulty handler: the failed attempt is not counted
NextRetryCount_stuck(retry_count) == retry_count

\* `retry_count += 1` (line 536)
NextRetryCount(retry_count) == retry_count + 1

\* `if retry_count >= max_retries` (line 539)
RetriesExhausted(retry_count) == retry_count >= max_retries

\* `if is_critical_button and retry_count >= 2` (line 554)
ReloadsSearchPage(selector, retry_count) ==
    is_critical_button(selector) /\ retry_count >= 2

ClickEvent(ev, val) == [ev |-> ev, val |-> val]

InitClick ==
    /\ click \in [selector    : ClickSelectors,
                  retry_count : {0},
                  pc          : {"attempt"},
                  ret         : {None},
                  attempts    : {<< >>},
                  tried       : {<< >>},
                  events      : {<< >>}]
    /\ ScrapeUnused
    /\ input = Unused
    /\ output = Unused
    /\ lookups = Unused
    /\ files = Unused

(* lines 92-533: one pass through the try block of the loop *)
ClickAttempt ==
    /\ click.pc = "attempt"
    /\ LoopContinues(click.retry_count)
    /\ \E outcome \in AttemptOutcomes(click.selector) :
         \E pass \in IF is_critical_button(click.selector)
                     THEN { CriticalPass(env) : env \in CriticalEnvs }
                     ELSE { [events |-> << >>, result |-> StandardPass(outcome)] } :
           /\ is_critical_button(click.selector) => OutcomeOf(pass) = outcome
           /\ click' = [click EXCEPT
                         !.attempts = Append(@, outcome),
                         !.tried = pass.events,
                         !.pc  = IF AttemptSucceeds(outcome) THEN "done" ELSE "handler",
                         !.ret = IF AttemptSucceeds(outcome) THEN Some(TRUE) ELSE @]
    /\ UNCHANGED <<scrapeVars, input, output, lookups, files>>

(* lines 535-562: the handler of a failed pass; the screenshot and the     *)
(* reload are wrapped in try/except of their own, so their failure is      *)
(* only an event                                                           *)
ClickRetryHandler ==
    /\ click.pc = "handler"
    /\ LET n == NextRetryCount(click.retry_count)
       IN  IF RetriesExhausted(n)
           THEN \E shot \in {"ok", "raised"} :
                  click' = [click EXCEPT
                              !.retry_count = n,
                              !.events = Append(@, ClickEvent("screenshot", shot)),
                              !.pc = "done",
                              !.ret = Some(FALSE)]
           ELSE \E reload \in {"ok", "raised"} :
                  LET slept == Append(click.events, ClickEvent("sleep", 1 + n))
                      evs == IF ReloadsSearchPage(click.selector, n)
                             THEN Append(slept, ClickEvent("goto", reload))
                             ELSE slept
                  IN  click' = [click EXCEPT
                                  !.retry_count = n,
                                  !.events = evs,
                                  !.pc  = IF LoopContinues(n) THEN "attempt" ELSE "done",
                                  !.ret = IF LoopContinues(n) THEN @ ELSE Some(FALSE)]
    /\ UNCHANGED <<scrapeVars, input, output, lookups, files>>

NextClick ==
    \/ ClickAttempt
    \/ ClickRetryHandler

SpecClick == InitClick /\ [][NextClick]_vars

(* C11: click_element makes at most 5 attempts; it returns True on the     *)
(* first attempt that succeeds, False after the fifth failed attempt in a  *)
(* row, and it always ends with one of these two values.                   *)
C11_AtMostFiveAttempts ==
    /\ Len(click.attempts) <= 5
    /\ \A i \in 1..(Len(click.attempts) - 1) : ~AttemptSucceeds(click.attempts[i])
    /\ click.pc = "done" =>
          /\ click.ret \in {Some(TRUE), Some(FALSE)}
          /\ click.ret = Some(TRUE) <=>
                AttemptSucceeds(click.attempts[Len(click.attempts)])
          /\ click.ret = Some(FALSE) => Len(click.attempts) = 5

\* five failed attempts, then False
C11_Witness ==
    /\ click.pc = "done"
    /\ click.ret = Some(FALSE)
    /\ Len(click.attempts) = 5
    /\ \A i \in 1..5 : ~AttemptSucceeds(click.attempts[i])

----------------------------------------------------------------------------
(* Claims about the teardown and the cleaned output of scrape_ekw (Spec)   *)

(* C12: close_browser never raises: whatever happens to browser.close()    *)
(* or playwright.stop(), scrape_ekw ends with the result it was about to   *)
(* give when it entered its finally block.                                 *)
C12_CloseKeepsResult ==
    Finished => result = pending

(* C13: a successful response of a call with clean_html = true carries no  *)
(* raw_html in any of its sections.                                        *)
C13_CleanedHasNoRawHtml ==
    (Returned /\ result.response.success /\ clean_html) =>
        \A k \in SectionKeys :
            result.response[k].some => result.response[k].val.raw_html = None

----------------------------------------------------------------------------
(* The service: several callers at the same time (specification            *)
(* SpecService).  A caller reaches scrape_ekw through the HTTP endpoint    *)
(* (app/api/routes/scraper.py), through the command line (cli.py) or       *)
(* directly; the calls run in one working directory.                       *)

MaxCallers == 2

Callers == 1..MaxCallers

Vias == {"endpoint", "cli", "direct"}

\* the parameters of scrape_ekw (line 40)
ScrapeEkwParams == {"request", "clean_html"}

\* the arguments each caller passes: scrape_ekw_endpoint (line 32),
\* run_scraper (cli.py line 40), a direct call scrape_ekw(request)
ArgumentsOf(via) ==
    CASE via = "endpoint" -> {"request", "clean_html", "save_screenshots"}
      [] via = "cli"      -> {"request", "save_screenshots"}
      [] via = "direct"   -> {"request"}

\* Python's binding of keyword arguments: a name that is not a parameter
\* raises TypeError before the body of the function starts
BindArguments(params, args) ==
    IF args \subseteq params
    THEN Value(args)
    ELSE Raised(Exc("TypeError", <<"unexpected keyword argument">>))

\* the screenshot files: scrape_ekw lines 83, 117 and 121, click_element
\* line 97
DebugFiles ==
    {"debug_initial_page.png", "debug_results_page.png", "debug_error_page.png",
     "debug_before_form_submit.png"}

\* the calls of scrape_ekw whose body is running
RunningLookups ==
    { i \in Callers : lookups[i].pc \notin {"call", "done"} }

\* page.screenshot(path=file) by lookup i: the file now holds what i wrote
WriteFile(i, file) == files' = [files EXCEPT ![file] = i]

\* what the caller of scrape_ekw makes of its completion: the endpoint
\* returns the response (HTTP 200) or turns an exception into HTTP 500
\* (lines 31-38); the others get the completion as it is
Delivered(via, completion) ==
    IF via = "endpoint"
    THEN IF completion = "raised" THEN "http_500" ELSE "http_200"
    ELSE completion

InitService ==
    /\ lookups \in [Callers -> [via     : Vias,
                                pc      : {"call"},
                                started : {FALSE},
                                session : {0},
                                pending : {"none"},
                                outcome : {"none"}]]
    /\ files = [f \in DebugFiles |-> 0]
    /\ ScrapeUnused
    /\ click = Unused
    /\ input = Unused
    /\ output = Unused

\* lookup i leaves the try block with what it is about to return
LookupLeaves(i, ret) ==
    lookups' = [lookups EXCEPT ![i].pc = "finally", ![i].pending = ret]

LookupGoes(i, to) ==
    lookups' = [lookups EXCEPT ![i].pc = to]

(* the caller calls scrape_ekw with its arguments *)
ServiceCall(i) ==
    /\ lookups[i].pc = "call"
    /\ LET b == BindArguments(ScrapeEkwParams, ArgumentsOf(lookups[i].via))
       IN  IF b.raised
           THEN lookups' = [lookups EXCEPT
                              ![i].pc = "done",
                              ![i].outcome = Delivered(lookups[i].via, "raised")]
           ELSE lookups' = [lookups EXCEPT
                              ![i].pc = "initialize",
                              ![i].started = TRUE]
    /\ UNCHANGED <<scrapeVars, click, input, output, files>>

(* line 56: a browser session of the call's own *)
LookupInitialize(i) ==
    /\ lookups[i].pc = "initialize"
    /\ \/ lookups' = [lookups EXCEPT ![i].pc = "screenshot_initial",
                                     ![i].session = i]
       \/ LookupLeaves(i, "failure")
    /\ UNCHANGED <<scrapeVars, click, input, output, files>>

(* lines 62-109: navigation, the initial screenshot, the form, the search *)
LookupSearch(i) ==
    /\ lookups[i].pc = "screenshot_initial"
    /\ \/ WriteFile(i, "debug_initial_page.png")
       \/ UNCHANGED files
    /\ \/ LookupGoes(i, "results")
       \/ LookupLeaves(i, "failure")
    /\ UNCHANGED <<scrapeVars, click, input, output>>

(* lines 111-139: the screenshot of the results page; if it raises, the    *)
(* screenshot of the error page and a failure response                     *)
LookupResults(i) ==
    /\ lookups[i].pc = "results"
    /\ \/ /\ WriteFile(i, "debug_results_page.png")
          /\ LookupGoes(i, "view")
       \/ /\ WriteFile(i, "debug_error_page.png")
          /\ LookupLeaves(i, "failure")
       \/ /\ UNCHANGED files
          /\ LookupLeaves(i, "failure")
    /\ UNCHANGED <<scrapeVars, click, input, output>>

(* lines 141-150 and click_element lines 94-99: the screenshot before the  *)
(* view-content button is tried                                            *)
LookupViewContent(i) ==
    /\ lookups[i].pc = "view"
    /\ \/ WriteFile(i, "debug_before_form_submit.png")
       \/ UNCHANGED files
    /\ \/ LookupGoes(i, "sections")
       \/ LookupLeaves(i, "failure")
    /\ UNCHANGED <<scrapeVars, click, input, output>>

(* lines 152-178: the departments and the response *)
LookupSections(i) ==
    /\ lookups[i].pc = "sections"
    /\ \/ LookupLeaves(i, "success")
       \/ LookupLeaves(i, "failure")
    /\ UNCHANGED <<scrapeVars, click, input, output, files>>

(* lines 187-191: the session is closed; an exception of close_browser     *)
(* replaces the response                                                   *)
LookupFinally(i) ==
    /\ lookups[i].pc = "finally"
    /\ \E closing \in {"ok", "close_raises"} :
         LET closes == FinallyCloses(IF lookups[i].session = 0 THEN None ELSE Some(i),
                                     IF lookups[i].session = 0 THEN None ELSE Some(i))
             c == IF closes
                  THEN close_browser(closing, Exc("Exception", <<"Connection closed">>))
                  ELSE Value(None)
         IN  lookups' = [lookups EXCEPT
                           ![i].pc = "done",
                           ![i].session = 0,
                           ![i].outcome =
                               Delivered(lookups[i].via,
                                         IF c.raised THEN "raised"
                                                     ELSE lookups[i].pending)]
    /\ UNCHANGED <<scrapeVars, click, input, output, files>>

NextService ==
    \E i \in Callers :
        \/ ServiceCall(i)
        \/ LookupInitialize(i)
        \/ LookupSearch(i)
        \/ LookupResults(i)
        \/ LookupViewContent(i)
        \/ LookupSections(i)
        \/ LookupFinally(i)

SpecService == InitService /\ [][NextService]_vars

(* C14: the endpoint hands every request to scrape_ekw and answers with    *)
(* the response of the lookup; it answers HTTP 500 only when the lookup    *)
(* itself ran and raised.                                                  *)
C14_Http500OnlyWhenLookupRaises ==
    \A i \in Callers :
        (lookups[i].via = "endpoint" /\ lookups[i].outcome = "http_500") =>
            lookups[i].started

(* C20: no diagnostic file written by a lookup is overwritten by another   *)
(* lookup while the first one is still running, and no two lookups use     *)
(* the same session.                                                       *)
C20_NoSharedArtifacts ==
    [][ /\ \A f \in DebugFiles :
             (files[f] # 0 /\ files'[f] # files[f]) =>
                 files[f] \notin RunningLookups
        /\ \A i, j \in Callers :
             (i # j /\ lookups'[i].session # 0) =>
                 lookups'[i].session # lookups'[j].session ]_vars

----------------------------------------------------------------------------
(* Department II: the owners found in the markup by parse_dzial_ii         *)
(* (specification SpecOwners).  A table is a sequence of rows, a row a     *)
(* sequence of cells, a cell its text.                                     *)

MaxRows == 3

MaxCells == 2

\* texts with an 11-digit number and the marker (two different owners),
\* the text of a position marker "Lp. 1.", and any other text
OwnerTexts == {"JAN CZLONKOWSKI 80010112345", "ANNA CZLONKOWSKA 82020254321"}

LpText == "Lp. 1."

CellTexts == OwnerTexts \cup {LpText, "x"}

\* a cell whose text is partly inside a nested element: td.text is the
\* text of an owner, td.string is None
NestedOwnerCell == "<b>JAN CZLONKOWSKI</b> 80010112345"

\* td.text (textContent in the page): the text of the cell without tags
TextOf(cell) ==
    IF cell = NestedOwnerCell THEN "JAN CZLONKOWSKI 80010112345" ELSE cell

\* line 436: pesel_pattern.search(td.text) and the marker in td.text
IsOwnerCell(cell) == TextOf(cell) \in OwnerTexts

\* line 443: the filter text=lambda t: ... is given td.string, which is the
\* text of the cell only when the cell holds nothing but that text
IsOwnerString(cell) == cell \in OwnerTexts

\* re.search(r'Lp\. (\d+)\.', text): the number, if the text has a marker
LpMatch(text) == IF text = LpText THEN Some("1") ELSE None

OwnerRowsOf == UNION { [1..n -> CellTexts] : n \in 1..MaxCells }

OwnerTables ==
    [rows   : UNION { [1..n -> OwnerRowsOf] : n \in 1..MaxRows },
     spaced : BOOLEAN]

\* the children of the table element as html.parser builds them: the rows,
\* each preceded by a text node of white space when the markup has line
\* breaks between the rows
RowNode(cells) == [tag |-> "tr", cells |-> cells]

TextNode == [tag |-> "#text", cells |-> << >>]

Children(table) ==
    IF table.spaced
    THEN [k \in 1..(2 * Len(table.rows)) |->
             IF k % 2 = 1 THEN TextNode ELSE RowNode(table.rows[k \div 2])]
    ELSE [k \in 1..Len(table.rows) |-> RowNode(table.rows[k])]

RECURSIVE OwnerCellsOfRow(_, _)
\* the positions of the matching cells of one row, as entries of owner_rows
OwnerCellsOfRow(cells, pos) ==
    IF cells = << >> THEN << >>
    ELSE (IF IsOwnerCell(Head(cells)) THEN <<pos>> ELSE << >>)
         \o OwnerCellsOfRow(Tail(cells), pos)

RECURSIVE OwnerRows(_, _)
\* lines 435-438: td.parent is appended once for every matching cell, in
\* document order; a row is named by its position among the children
OwnerRows(children, from) ==
    IF from > Len(children) THEN << >>
    ELSE OwnerCellsOfRow(children[from].cells, from)
         \o OwnerRows(children, from + 1)

RECURSIVE FirstOwnerCell(_)
\* line 443: row.find('td', text=...) gives the first matching cell of the row
FirstOwnerCell(cells) ==
    IF cells = << >> THEN None
    ELSE IF IsOwnerString(Head(cells)) THEN Some(Head(cells))
    ELSE FirstOwnerCell(Tail(cells))

RECURSIVE FirstLpCell(_)
\* line 460: current_row.find('td', text=re.compile(r'Lp\. \d+\.'))
FirstLpCell(cells) ==
    IF cells = << >> THEN None
    ELSE IF LpMatch(Head(cells)).some THEN LpMatch(Head(cells))
    ELSE FirstLpCell(Tail(cells))

\* line 459: isinstance(current_row, Tag); the name Tag is bound nowhere in
\* app/core/scraper.py (only BeautifulSoup is imported from bs4), so the
\* test raises NameError when it is evaluated
IsInstanceOfTag(node) == Raised(Exc("NameError", <<"name 'Tag' is not defined">>))

WalkLimit == 5

RECURSIVE WalkBack(_, _, _)
\* lines 456-465: up to five steps to the previous sibling, stopping at the
\* first row with a position marker
WalkBack(children, pos, steps) ==
    IF steps = 0 THEN Value(None)
    ELSE IF pos = 1 THEN Value(None)
    ELSE LET t == IsInstanceOfTag(children[pos - 1])
         IN  IF t.raised THEN t
             ELSE IF t.value /\ FirstLpCell(children[pos - 1].cells).some
                  THEN Value(FirstLpCell(children[pos - 1].cells))
                  ELSE WalkBack(children, pos - 1, steps - 1)

OwnerRecord(share, person, lp) == [share |-> share, person |-> person, lp |-> lp]

RECURSIVE OwnerRecords(_, _, _)
\* lines 441-467: one pass of the loop per entry of owner_rows
OwnerRecords(children, owner_rows, i) ==
    IF i > Len(owner_rows) THEN Value(<< >>)
    ELSE LET pos == owner_rows[i]
             owner_info == FirstOwnerCell(children[pos].cells)
             lp == WalkBack(children, pos, WalkLimit)
             rest == OwnerRecords(children, owner_rows, i + 1)
         IN  IF ~owner_info.some THEN rest
             ELSE IF lp.raised THEN lp
             ELSE IF rest.raised THEN rest
             ELSE Value(<<OwnerRecord(i, owner_info.val, lp.value)>> \o rest.value)

\* content["tables"] of parse_dzial_ii for the markup of a table
parse_owners(table) ==
    OwnerRecords(Children(table), OwnerRows(Children(table), 1), 1)

InitOwners ==
    /\ input \in OwnerTables
    /\ output = [done |-> FALSE]
    /\ ScrapeUnused
    /\ click = Unused
    /\ lookups = Unused
    /\ files = Unused

ParseOwners ==
    /\ ~output.done
    /\ output' = [done |-> TRUE, res |-> parse_owners(input)]
    /\ UNCHANGED <<scrapeVars, click, input, lookups, files>>

NextOwners == ParseOwners

SpecOwners == InitOwners /\ [][NextOwners]_vars

RECURSIVE Flatten(_)
Flatten(rows) ==
    IF rows = << >> THEN << >> ELSE Head(rows) \o Flatten(Tail(rows))

\* the texts of the matching cells of a table, in document order
MatchingCells(table) == SelectSeq(Flatten(table.rows), IsOwnerCell)

(* C15: the owner records are the matching cells, one record per cell in   *)
(* document order, none twice and none left out, also when two matching    *)
(* cells share a row.                                                      *)
C15_OneRecordPerMatchingCell ==
    (output.done /\ ~output.res.raised) =>
        /\ Len(output.res.value) = Len(MatchingCells(input))
        /\ \A k \in 1..Len(output.res.value) :
              output.res.value[k].person = MatchingCells(input)[k]

\* the rows before row r, nearest first, at most WalkLimit of them
RECURSIVE NearestLp(_, _, _)
NearestLp(rows, r, steps) ==
    IF steps = 0 \/ r = 1 THEN None
    ELSE IF FirstLpCell(rows[r - 1]).some THEN FirstLpCell(rows[r - 1])
    ELSE NearestLp(rows, r - 1, steps - 1)

\* the row of the k-th matching cell of a table
RECURSIVE RowOfMatch(_, _, _)
RowOfMatch(rows, r, k) ==
    LET n == Len(SelectSeq(rows[r], IsOwnerCell))
    IN  IF k <= n THEN r ELSE RowOfMatch(rows, r + 1, k - n)

(* C16: the backward walk ends without error for every layout, and each    *)
(* record has the position number of the nearest preceding row with an     *)
(* 'Lp. N.' marker among the five rows before the owner's row, or none.    *)
C16_PositionFromNearestRow ==
    output.done =>
        /\ ~output.res.raised
        /\ \A k \in 1..Len(output.res.value) :
              output.res.value[k].lp =
                  NearestLp(input.rows,
                            RowOfMatch(input.rows, 1, output.res.value[k].share),
                            WalkLimit)

----------------------------------------------------------------------------
(* extract_table_data (app/utils/html_cleaner.py), applied to the markup   *)
(* of one table (specification SpecTables)                                 *)

MaxTableRows == 2

MaxRowCells == 2

RECURSIVE CollapseWhitespace(_)
\* re.sub(r'\s+', ' ', text)
CollapseWhitespace(t) ==
    IF t = << >> THEN << >>
    ELSE IF Head(t) \in Whitespace
         THEN <<" ">> \o CollapseWhitespace(LStrip(t))
         ELSE <<Head(t)>> \o CollapseWhitespace(Tail(t))

\* clean_text: "" for an empty text, otherwise runs of white space made one
\* space and the ends stripped (the texts of the model hold no entities, so
\* html.unescape leaves them as they are)
clean_text(t) == IF t = << >> THEN << >> ELSE Strip(CollapseWhitespace(t))

TableTexts == { <<"A">>, <<"B">>, <<"1">>, <<"2">>, <<" ">> }

\* how the cells of a row are marked: no class at all, every cell td.csDane,
\* or the first cell td.csDane and the others td.csBDane
RowLayouts == {"plain", "dane", "key_value"}

TableRows ==
    [layout : RowLayouts,
     texts  : UNION { [1..n -> TableTexts] : n \in 1..MaxRowCells }]

TableMarkups ==
    [class : {"tbOdpis", ""},
     rows  : UNION { [1..n -> TableRows] : n \in 1..MaxTableRows }]

\* the class of the j-th cell of a row
CellClass(row, j) ==
    CASE row.layout = "plain"     -> ""
      [] row.layout = "dane"      -> "csDane"
      [] row.layout = "key_value" -> IF j = 1 THEN "csDane" ELSE "csBDane"

\* row.select('td.<class>'): the texts of the cells of that class, in order
RECURSIVE SelectCells(_, _, _)
SelectCells(row, class, j) ==
    IF j > Len(row.texts) THEN << >>
    ELSE (IF CellClass(row, j) = class THEN <<row.texts[j]>> ELSE << >>)
         \o SelectCells(row, class, j + 1)

\* table_data[key] = value
DictSet(d, key, value) ==
    [k \in (DOMAIN d) \cup {key} |-> IF k = key THEN value ELSE d[k]]

\* lines 88-119: what one row does to table_data
TableRowInto(table_data, row) ==
    LET key_cells_0 == SelectCells(row, "csDane", 1)
        value_cells_0 == SelectCells(row, "csBDane", 1)
        swap == value_cells_0 = << >> /\ Len(key_cells_0) > 1
        value_cells == IF swap THEN <<key_cells_0[2]>> ELSE value_cells_0
        key_cells == IF swap THEN <<key_cells_0[1]>> ELSE key_cells_0
    IN  IF key_cells_0 = << >> THEN table_data
        ELSE IF ~(value_cells # << >> \/ Len(key_cells) > 1) THEN table_data
        ELSE IF clean_text(key_cells[1]) = << >> THEN table_data
        ELSE DictSet(table_data, clean_text(key_cells[1]),
                     IF value_cells # << >> THEN clean_text(value_cells[1])
                     ELSE clean_text(key_cells[2]))

RECURSIVE TableRowsInto(_, _)
TableRowsInto(table_data, rows) ==
    IF rows = << >> THEN table_data
    ELSE TableRowsInto(TableRowInto(table_data, Head(rows)), Tail(rows))

\* lines 76-124 for a document that is one table: only table.tbOdpis is
\* looked at, and a table that gives no entry gives no dict
extract_table_data(table) ==
    IF table.class # "tbOdpis" THEN << >>
    ELSE LET table_data == TableRowsInto(<< >>, table.rows)
         IN  IF DOMAIN table_data = {} THEN << >> ELSE <<table_data>>

InitTables ==
    /\ input \in TableMarkups
    /\ output = [done |-> FALSE]
    /\ ScrapeUnused
    /\ click = Unused
    /\ lookups = Unused
    /\ files = Unused

ExtractTableData ==
    /\ ~output.done
    /\ output' = [done |-> TRUE, res |-> extract_table_data(input)]
    /\ UNCHANGED <<scrapeVars, click, input, lookups, files>>

NextTables == ExtractTableData

SpecTables == InitTables /\ [][NextTables]_vars

\* the texts of the rows of a table
RowTexts(table) == [r \in 1..Len(table.rows) |-> table.rows[r].texts]

(* C17: a table with the header row A, B and the single data row 1, 2      *)
(* gives the one mapping A -> 1, B -> 2; a table of one row of unmarked    *)
(* cells, which has no header, gives the empty list.                       *)
C17_HeaderZip ==
    output.done =>
        /\ RowTexts(input) = << << <<"A">>, <<"B">> >>, << <<"1">>, <<"2">> >> >> =>
              output.res = << (<<"A">> :> <<"1">>) @@ (<<"B">> :> <<"2">>) >>
        /\ (Len(input.rows) = 1 /\ input.rows[1].layout = "plain") =>
              output.res = << >>

----------------------------------------------------------------------------
(* clean_html_content (app/utils/html_cleaner.py), specification           *)
(* SpecCleaner.  Markup is a sequence of tokens: pieces of text and tags.  *)
(* A piece of text stands for its escaped form in the markup ("<!" for     *)
(* &lt;!), as html.parser reads it and as BeautifulSoup writes it back.    *)

MaxHtmlLen == 4

\* pieces of text: a letter, a space, the characters <! and the characters --
TextTokens == {"a", " ", "<!", "--"}

\* <script></script>, an element with or without style="display:none", its
\* end tag, a void element, a comment, and a marked section with an unknown
\* keyword, which html.parser rejects
HtmlTokens ==
    TextTokens \cup {"<script>", "<b>", "<b hidden>", "</b>", "<br>",
                     "<!--a-->", "<![x]>"}

HtmlInputs == UNION { [1..n -> HtmlTokens] : n \in 0..MaxHtmlLen }

\* the nodes of the tree BeautifulSoup builds
TextNodeOf(t) ==
    [kind |-> "text", name |-> "", hidden |-> FALSE, text |-> t, children |-> << >>]

CommentNodeOf(t) ==
    [kind |-> "comment", name |-> "", hidden |-> FALSE, text |-> t, children |-> << >>]

ElementNode(name, hidden, children) ==
    [kind |-> "element", name |-> name, hidden |-> hidden, text |-> << >>,
     children |-> children]

RECURSIVE TextRun(_)
\* the longest run of text at the head of the markup
TextRun(toks) ==
    IF toks # << >> /\ Head(toks) \in TextTokens
    THEN <<Head(toks)>> \o TextRun(Tail(toks))
    ELSE << >>

RECURSIVE ParseNodes(_, _)
\* BeautifulSoup(html_content, 'html.parser') for markup without rejected
\* parts: the children of the element being read and the markup left after
\* it.  Text between two tags is one node; an end tag closes the innermost
\* open element and is ignored when none is open; an element still open at
\* the end of the markup is closed there.
ParseNodes(toks, open) ==
    IF toks = << >> THEN [nodes |-> << >>, rest |-> << >>]
    ELSE LET h == Head(toks)
             after(node, rest) ==
                 LET more == ParseNodes(rest, open)
                 IN  [nodes |-> <<node>> \o more.nodes, rest |-> more.rest]
         IN  CASE h \in TextTokens ->
                    after(TextNodeOf(TextRun(toks)),
                          SubSeq(toks, Len(TextRun(toks)) + 1, Len(toks)))
               [] h = "<script>" -> after(ElementNode("script", FALSE, << >>), Tail(toks))
               [] h = "<br>" -> after(ElementNode("br", FALSE, << >>), Tail(toks))
               [] h = "<!--a-->" -> after(CommentNodeOf(<<"a">>), Tail(toks))
               [] h \in {"<b>", "<b hidden>"} ->
                    LET inner == ParseNodes(Tail(toks), TRUE)
                    IN  after(ElementNode("b", h = "<b hidden>", inner.nodes),
                              inner.rest)
               [] h = "</b>" ->
                    IF open THEN [nodes |-> << >>, rest |-> Tail(toks)]
                    ELSE ParseNodes(Tail(toks), open)

\* line 339: the parser raises ParserRejectedMarkup on a rejected part
ParseHtml(toks) ==
    IF \E k \in 1..Len(toks) : toks[k] = "<![x]>"
    THEN Raised(Exc("ParserRejectedMarkup", <<"unknown status keyword">>))
    ELSE Value(ParseNodes(toks, FALSE).nodes)

RemovedTags == {"script", "style", "meta", "link", "iframe"}

KeptWhenEmpty == {"br", "hr", "img", "input", "meta"}

\* text.strip().startswith('<!--')
StartsLikeComment(t) ==
    LET s == Strip(t) IN Len(s) >= 2 /\ s[1] = "<!" /\ s[2] = "--"

RECURSIVE HasText(_)
\* len(element.get_text(strip=True)) > 0 for the element with these
\* children: comments are no part of get_text
HasText(nodes) ==
    \E k \in 1..Len(nodes) :
        \/ nodes[k].kind = "text" /\ Strip(nodes[k].text) # << >>
        \/ nodes[k].kind = "element" /\ HasText(nodes[k].children)

\* lines 342-343
IsRemovedTag(n) == n.kind = "element" /\ n.name \in RemovedTags

\* lines 346-347
IsCommentLikeString(n) ==
    n.kind \in {"text", "comment"} /\ StartsLikeComment(n.text)

\* lines 350-351
IsHidden(n) == n.kind = "element" /\ n.hidden

\* lines 354-357 (none of the elements of the model holds an img)
IsEmptyElement(n) ==
    /\ n.kind = "element"
    /\ ~HasText(n.children)
    /\ n.name \notin KeptWhenEmpty

\* the nodes each removing step of the cleaning takes out
Drops(step, n) ==
    CASE step = "tags"     -> IsRemovedTag(n)
      [] step = "comments" -> IsCommentLikeString(n)
      [] step = "hidden"   -> IsHidden(n)
      [] step = "empty"    -> IsEmptyElement(n)

RECURSIVE Without(_, _)
\* the tree after a removing step: the nodes it takes out are looked for at
\* every depth
Without(nodes, step) ==
    IF nodes = << >> THEN << >>
    ELSE LET n == Head(nodes)
         IN  (IF Drops(step, n) THEN << >>
              ELSE <<[n EXCEPT !.children = Without(n.children, step)]>>)
             \o Without(Tail(nodes), step)

RECURSIVE NormalizeStrings(_)
\* lines 360-362: every string of the tree, comments among them, is replaced
\* by a plain string: its text stripped, runs of white space made one space
NormalizeStrings(nodes) ==
    IF nodes = << >> THEN << >>
    ELSE LET n == Head(nodes)
         IN  <<IF n.kind = "element"
               THEN [n EXCEPT !.children = NormalizeStrings(n.children)]
               ELSE TextNodeOf(CollapseWhitespace(Strip(n.text)))>>
             \o NormalizeStrings(Tail(nodes))

RECURSIVE Serialize(_)
\* str(soup)
Serialize(nodes) ==
    IF nodes = << >> THEN << >>
    ELSE LET n == Head(nodes)
         IN  (CASE n.kind = "text" -> n.text
                [] n.kind = "comment" -> <<"<!--a-->">>
                [] n.kind = "element" /\ n.name = "script" -> <<"<script>">>
                [] n.kind = "element" /\ n.name = "br" -> <<"<br>">>
                [] n.kind = "element" /\ n.name = "b" ->
                     <<IF n.hidden THEN "<b hidden>" ELSE "<b>">>
                     \o Serialize(n.children) \o <<"</b>">>)
             \o Serialize(Tail(nodes))

\* lines 338-370: the structured cleaning (the markup of the model has no
\* line breaks, so line 368 changes nothing)
CleanStructured(html_content) ==
    LET soup == ParseHtml(html_content)
    IN  IF soup.raised THEN soup
        ELSE Value(Serialize(NormalizeStrings(
                 Without(Without(Without(Without(soup.value,
                     "tags"), "comments"), "hidden"), "empty"))))

\* a faulty handler: the raw input as it is
CleanFallback_raw(html_content) == html_content

\* line 374: re.sub(r'\s+', ' ', html_content).strip()
CleanFallback(html_content) == Strip(CollapseWhitespace(html_content))

\* clean_html_content
clean_html_content(html_content) ==
    IF html_content = << >> THEN Value(<< >>)
    ELSE LET r == CleanStructured(html_content)
         IN  IF r.raised /\ CaughtByExceptException(r.exc)
             THEN Value(CleanFallback(html_content))
             ELSE r

InitCleaner ==
    /\ input \in HtmlInputs
    /\ output = [passes |-> 0, once |-> Value(<< >>), twice |-> Value(<< >>)]
    /\ ScrapeUnused
    /\ click = Unused
    /\ lookups = Unused
    /\ files = Unused

(* clean_html_content(x) *)
CleanOnce ==
    /\ output.passes = 0
    /\ output' = [output EXCEPT !.passes = 1,
                                !.once = clean_html_content(input)]
    /\ UNCHANGED <<scrapeVars, click, input, lookups, files>>

(* clean_html_content of the result *)
CleanTwice ==
    /\ output.passes = 1
    /\ ~output.once.raised
    /\ output' = [output EXCEPT !.passes = 2,
                                !.twice = clean_html_content(output.once.value)]
    /\ UNCHANGED <<scrapeVars, click, input, lookups, files>>

NextCleaner ==
    \/ CleanOnce
    \/ CleanTwice

SpecCleaner == InitCleaner /\ [][NextCleaner]_vars

(* C18: clean_html_content is idempotent: cleaning the cleaned markup      *)
(* gives the cleaned markup again.                                         *)
C18_Idempotent ==
    output.passes = 2 => output.twice = output.once

\* the markup holds a part the parser rejects
Rejected(html_content) ==
    \E k \in 1..Len(html_content) : html_content[k] = "<![x]>"

(* C19: clean_html_content never raises; when the structured cleaning      *)
(* fails it gives the raw input with every run of white space made one     *)
(* space and the ends trimmed, and it gives the empty string for the empty *)
(* input.                                                                  *)
C19_NeverRaisesFallsBack ==
    output.passes >= 1 =>
        /\ ~output.once.raised
        /\ input = << >> => output.once.value = << >>
        /\ Rejected(input) =>
              /\ output.once.value = Strip(CollapseWhitespace(input))
              /\ \A k \in 1..Len(output.once.value) :
                    /\ output.once.value[k] = " " =>
                          /\ k > 1
                          /\ k < Len(output.once.value)
                          /\ output.once.value[k + 1] # " "

\* rejected markup with a run of two spaces inside and a space at the end
C19_Witness ==
    /\ output.passes >= 1
    /\ Rejected(input)
    /\ \E k \in 1..(Len(input) - 1) : input[k] = " " /\ input[k + 1] = " "
    /\ input[Len(input)] = " "
    /\ output.once = Value(Strip(CollapseWhitespace(input)))

----------------------------------------------------------------------------
(* Cancellation and the order of the phases of scrape_ekw (Spec)           *)

(* C21: when the caller cancels the lookup at a suspension point, every    *)
(* browser resource the lookup started is released by the time the call    *)
(* has ended, and no ScraperResponse is delivered.                         *)
C21_CancelReleasesAll ==
    (Finished /\ Cancelled) =>
        /\ running = {}
        /\ ~Returned

\* the phase a call to a collaborator belongs to; 0 for the calls that
\* belong to no phase (screenshots, teardown, cancellation)
PhaseOf(c) ==
    CASE c.op = "initialize_browser" -> 1
      [] c.op = "navigate_to_url"    -> 2
      [] c.op = "accept_cookies"     -> 3
      [] c.op = "fill_kw_form"       -> 4
      [] c.op = "click_element" /\ c.arg = <<"#wyszukaj">> -> 5
      [] c.op = "wait_for_element"   -> 6
      [] c.op = "click_element" /\ c.arg = <<"#przyciskWydrukZwykly">> -> 7
      [] c.op = "click_element" /\ IsDepartmentClick(c) -> 8
      [] c.op = "process_section"    -> 8
      [] c.op = "clean_scraped_data" -> 9
      [] OTHER -> 0

(* C22: the calls of one lookup follow the order of the phases (session,   *)
(* portal, cookies, form, search, results, content, departments,           *)
(* response); the view-content control is clicked only after the search    *)
(* click succeeded and the results were found, and a department is         *)
(* processed only after the view-content click succeeded.                  *)
C22_PhaseOrder ==
    /\ \A i, j \in 1..Len(calls) :
          (i < j /\ PhaseOf(calls[i]) # 0 /\ PhaseOf(calls[j]) # 0) =>
              PhaseOf(calls[i]) <= PhaseOf(calls[j])
    /\ ViewContentAttempted =>
          /\ Called(Call("click_element", <<"#wyszukaj">>, "True"))
          /\ Called(Call("wait_for_element", <<"#przyciskWydrukZwykly">>, "True"))
    /\ (\E i \in 1..Len(calls) : PhaseOf(calls[i]) = 8) =>
          Called(ViewContentClick("True"))

\* ------------------------------------------------------------------
\* The passes of click_element (SpecClick)
\* ------------------------------------------------------------------

\* C23: for a control other than the view-content button, a click that is
\* delivered and followed by no navigation ends the call with True on that
\* same attempt: such a pass is the last one and is never followed by the
\* retry handler.
C23_AjaxClickSucceeds ==
    ~is_critical_button(click.selector) =>
        \A i \in 1..Len(click.attempts) :
            click.attempts[i] = "navigation_timeout" =>
                /\ i = Len(click.attempts)
                /\ click.pc = "done"
                /\ click.ret = Some(TRUE)

\* the place of an approach in the order of fallbacks: the fixed identifier,
\* the scan for matching text, the direct address, the reload and resubmit
FallbackRank(strategy) ==
    CASE strategy \in {"id_lookup", "button_click"} -> 1
      [] strategy = "text_scan"  -> 2
      [] strategy = "direct_url" -> 3
      [] strategy = "restart"    -> 4
      [] OTHER -> 0

\* C24: within one pass for the view-content button the approaches run in
\* the order fixed identifier, text scan, direct address, reload and
\* resubmit, and an approach runs only after every earlier one has run.
C24_FallbackOrder ==
    is_critical_button(click.selector) =>
        \A j \in 1..Len(click.tried) :
            LET r == FallbackRank(click.tried[j].strategy)
            IN  r # 0 =>
                  /\ \A i \in 1..(j - 1) :
                        FallbackRank(click.tried[i].strategy) <= r
                  /\ \A q \in 1..(r - 1) :
                        \E i \in 1..(j - 1) :
                            FallbackRank(click.tried[i].strategy) = q

\* C25: in a pass for the view-content button, a content indicator found
\* (before any approach or right after one) ends the pass with True and no
\* further approach runs; and the call returns True only when the last
\* check of its last pass found a content indicator.
C25_IndicatorShortCircuits ==
    is_critical_button(click.selector) =>
        /\ \A k \in 1..Len(click.tried) :
              click.tried[k].detected =>
                  /\ k = Len(click.tried)
                  /\ click.pc = "done"
                  /\ click.ret = Some(TRUE)
        /\ click.ret = Some(TRUE) =>
              /\ click.tried # << >>
              /\ click.tried[Len(click.tried)].detected

\* the direct address shows a content indicator: the pass returns True and
\* the click by id, the JavaScript form and the restart are not run
C25_Witness ==
    /\ is_critical_button(click.selector)
    /\ click.pc = "done"
    /\ click.ret = Some(TRUE)
    /\ Len(click.tried) >= 2
    /\ click.tried[Len(click.tried)] = PassEvent("direct_url", TRUE)

-----------------------------------------------------------------------------
(* Claims about the failure of the view-content click and of the           *)
(* department clicks in scrape_ekw (Spec)                                  *)

(* C26: when click_element returns False for the view-content button the   *)
(* lookup is fatal: the finished call has returned the failure response    *)
(* carrying the view-content error, and no department control was clicked  *)
(* and no department processed.                                            *)
C26_ViewContentFailureIsFatal ==
    (Finished /\ Called(ViewContentClick("False"))) =>
        /\ result = Return(FailureResponse(request, ViewClickErrorText))
        /\ DepartmentClicks = << >>
        /\ CallsOf("process_section") = {}

(* C27: when none of the five department controls could be clicked, the    *)
(* returned response still holds a document for each of the five           *)
(* departments, extracted from the whole page.                             *)
C27_WholePageFallback ==
    (Returned /\ \A k \in SectionKeys : DepartmentOutcome(k, "click_failed")) =>
        /\ result.response.success
        /\ \A k \in SectionKeys :
              /\ result.response[k].some
              /\ result.response[k].val.content.source # "error"

-----------------------------------------------------------------------------
(* Termination of scrape_ekw (FairSpec)                                    *)

\* every browser primitive completes or times out, so the call is never
\* suspended for ever: whenever a step of scrape_ekw is possible, a step is
\* eventually taken
FairSpec == Spec /\ WF_vars(Next)

(* C28: every lookup terminates and releases its session: the call         *)
(* eventually finishes, by returning or raising, with no browser or        *)
(* driver process of its session left running.                             *)
C28_TerminatesAndCloses ==
    <>(Finished /\ running = {})

\* the part of C28 about termination alone
EventuallyFinished == <>Finished

-----------------------------------------------------------------------------
(* The header zip of parse_dzial_isp, parse_dzial_iii, parse_dzial_iv and  *)
(* of the second table of parse_dzial_io (SpecHeaders)                     *)
(*                                                                         *)
(* A table is the sequence of its rows and a row the sequence of the       *)
(* inner texts of its td cells, which is all the parsers read; a row of    *)
(* th cells is a row without td cells. A page is the sequence of its       *)
(* tables of class tabela-dane: none, one, or two.                         *)

MaxZipRows == 3

MaxZipCells == 2

ZipTexts == { <<"A">>, <<" ", "A">>, <<"B">> }

ZipRows == UNION { [1..n -> ZipTexts] : n \in 0..MaxZipCells }

ZipTables == UNION { [1..n -> ZipRows] : n \in 0..MaxZipRows }

\* the pages: no table, one table, or the rows of one table split in two
ZipPages ==
    { << >> } \cup
    UNION { { <<t>> } \cup
            { <<SubSeq(t, 1, k), SubSeq(t, k + 1, Len(t))>> : k \in 1..(Len(t) - 1) }
          : t \in ZipTables }

\* a faulty key: the header text as it stands
HeaderKey_raw(header) == header

\* `headers[j].strip()`
HeaderKey(header) == Strip(header)

RECURSIVE RowData(_, _, _, _)
\* `for j, cell in enumerate(cells): if j < len(headers): row_data[...] = ...`
\* from the j-th cell on
RowData(headers, cells, j, row_data) ==
    IF j > Len(cells) THEN row_data
    ELSE RowData(headers, cells, j + 1,
                 IF j <= Len(headers)
                 THEN DictSet(row_data, HeaderKey(headers[j]), Strip(cells[j]))
                 ELSE row_data)

RECURSIVE ZipRowsFrom(_, _, _, _)
\* `for i, row in enumerate(rows)`: the rows of one table from the i-th on;
\* the first row fills headers, a later one is appended `if row_data`
ZipRowsFrom(rows, i, headers, data) ==
    IF i > Len(rows) THEN data
    ELSE IF i = 1
    THEN ZipRowsFrom(rows, i + 1, rows[1], data)
    ELSE LET row_data == RowData(headers, rows[i], 1, << >>)
         IN  ZipRowsFrom(rows, i + 1, headers,
                         IF DOMAIN row_data # {}
                         THEN Append(data, row_data)
                         ELSE data)

RECURSIVE ZipTablesFrom(_, _, _)
\* `for table in tables`, with `headers = []` at the start of each table
ZipTablesFrom(tables, t, data) ==
    IF t > Len(tables) THEN data
    ELSE ZipTablesFrom(tables, t + 1, ZipRowsFrom(tables[t], 1, << >>, data))

\* parse_dzial_isp, lines 387-410: content["property_data"] is set only
\* `if tables`
parse_dzial_isp(tables) ==
    IF tables = << >> THEN None ELSE Some(ZipTablesFrom(tables, 1, << >>))

InitHeaders ==
    /\ input \in ZipPages
    /\ output = [done |-> FALSE]
    /\ ScrapeUnused
    /\ click = Unused
    /\ lookups = Unused
    /\ files = Unused

ParseDzialISp ==
    /\ ~output.done
    /\ output' = [done |-> TRUE, res |-> parse_dzial_isp(input)]
    /\ UNCHANGED <<scrapeVars, click, input, lookups, files>>

NextHeaders == ParseDzialISp

SpecHeaders == InitHeaders /\ [][NextHeaders]_vars

\* the positions of a data row that have a header cell
PairedCells(header, row) == { j \in 1..Len(row) : j <= Len(header) }

\* the data rows of the page that have at least one paired cell, in order,
\* each with the header row of its table
RECURSIVE PairedRowsFrom(_, _, _)
PairedRowsFrom(tables, t, i) ==
    IF t > Len(tables) THEN << >>
    ELSE IF i > Len(tables[t]) THEN PairedRowsFrom(tables, t + 1, 2)
    ELSE (IF PairedCells(tables[t][1], tables[t][i]) # {}
          THEN << [header |-> tables[t][1], row |-> tables[t][i]] >>
          ELSE << >>)
         \o PairedRowsFrom(tables, t, i + 1)

PairedRows == PairedRowsFrom(input, 1, 2)

(* C30 as stated: every data row with a paired cell yields one mapping,    *)
(* in order, and that mapping pairs header cell j with the row's cell j    *)
(* for each j below the header length; nothing else is accumulated.        *)
C30_EveryCellPaired ==
    (output.done /\ input # << >>) =>
        /\ output.res.some
        /\ Len(output.res.val) = Len(PairedRows)
        /\ \A r \in 1..Len(PairedRows) :
              \A j \in PairedCells(PairedRows[r].header, PairedRows[r].row) :
                  /\ Strip(PairedRows[r].header[j]) \in DOMAIN output.res.val[r]
                  /\ output.res.val[r][Strip(PairedRows[r].header[j])]
                        = Strip(PairedRows[r].row[j])

\* the last paired cell of the row whose header cell has the key
LastCellUnder(pr, key) ==
    CHOOSE j \in PairedCells(pr.header, pr.row) :
        /\ Strip(pr.header[j]) = key
        /\ \A q \in PairedCells(pr.header, pr.row) :
              Strip(pr.header[q]) = key => q <= j

\* the mapping of a data row: one key for each distinct stripped header
\* text, holding the stripped text of the last cell under such a header
ZippedRow(pr) ==
    [key \in { Strip(pr.header[j]) : j \in PairedCells(pr.header, pr.row) }
        |-> Strip(pr.row[LastCellUnder(pr, key)])]

(* C30, amended: the first row of each table is the header; every later    *)
(* row with a paired cell yields, in order, the mapping from the stripped  *)
(* header texts to the stripped cell texts, the last cell winning among    *)
(* header cells of the same stripped text; cells beyond the header         *)
(* length are skipped, rows without a paired cell are not accumulated,     *)
(* and a table without header cells contributes no rows.                   *)
C30_HeaderZip ==
    output.done =>
        IF input = << >>
        THEN output.res = None
        ELSE /\ output.res.some
             /\ Len(output.res.val) = Len(PairedRows)
             /\ \A r \in 1..Len(PairedRows) :
                   output.res.val[r] = ZippedRow(PairedRows[r])

\* two header cells of the same stripped text over two different cells,
\* followed by a row without cells
C30_Witness ==
    /\ output.done
    /\ input = << << <<<<"A">>, <<" ", "A">>>>, <<<<"A">>, <<"B">>>>, << >> >> >>
    /\ output.res = Some(<< (<<"A">> :> <<"B">>) >>)

-----------------------------------------------------------------------------
(* extract_document_basis of app/utils/html_cleaner.py (SpecBasis)         *)
(*                                                                         *)
(* The legal-basis table is the sequence of its rows below the title row,  *)
(* a row the sequence of its td cells, and a cell its class, its rowspan   *)
(* attribute ("" when it has none) and its text.                           *)

MaxBasisRows == 3

MaxBasisCells == 2

BasisCell(class, rowspan, text) == [class |-> class, rowspan |-> rowspan, text |-> text]

BasisCells ==
    { BasisCell("csDane", "2", <<" ", "1">>),
      BasisCell("csDane", "3", <<"2">>),
      BasisCell("csNDBDane", "", <<"d">>),
      BasisCell("csDane", "", <<"j">>) }

\* the row that holds the title of the table, by which the table is found
TitleRow == << BasisCell("csTTytul", "", <<"DOKUMENTY BEDACE PODSTAWA WPISU">>) >>

BasisRows == UNION { [1..n -> BasisCells] : n \in 0..MaxBasisCells }

BasisTables == UNION { [1..n -> BasisRows] : n \in 0..MaxBasisRows }

\* 'td.csTTytul'
IsTitleCell(c) == c.class = "csTTytul"

\* a wider selector: 'td[rowspan]'
IsBasisNumCell_anyspan(c) == c.rowspan # ""

\* 'td[rowspan="2"]'
IsBasisNumCell(c) == c.rowspan = "2"

\* 'td.csNDBDane'
IsDescCell(c) == c.class = "csNDBDane"

\* 'td.csDane:not([rowspan])'
IsJournalCell(c) == c.class = "csDane" /\ c.rowspan = ""

\* 'td[rowspan]'
HasRowspan(c) == c.rowspan # ""

\* row.select(...): the positions of the cells of the row that match
SelectIn(row, Matches(_)) == { j \in 1..Len(row) : Matches(row[j]) }

\* row.select_one(...): the first match, or None
SelectOneIn(row, Matches(_)) ==
    IF SelectIn(row, Matches) = {} THEN None
    ELSE Some(row[CHOOSE j \in SelectIn(row, Matches) :
                     \A q \in SelectIn(row, Matches) : j <= q])

\* lines 210-233: what one row does to result and current_basis
BasisRowInto(st, row) ==
    IF SelectIn(row, IsTitleCell) # {} THEN st
    ELSE LET basis_num_cell == SelectOneIn(row, IsBasisNumCell)
             desc_cell == SelectOneIn(row, IsDescCell)
             journal_cell == SelectOneIn(row, IsJournalCell)
             started == DictSet(<< >>, "basis_number",
                                clean_text(basis_num_cell.val.text))
             st1 == IF basis_num_cell.some
                    THEN [result  |-> IF DOMAIN st.current_basis # {}
                                      THEN Append(st.result, st.current_basis)
                                      ELSE st.result,
                          current_basis |->
                              IF desc_cell.some
                              THEN DictSet(started, "document_description",
                                           clean_text(desc_cell.val.text))
                              ELSE started]
                    ELSE st
         IN  IF /\ journal_cell.some
                /\ DOMAIN st1.current_basis # {}
                /\ SelectIn(row, HasRowspan) = {}
             THEN [st1 EXCEPT !.current_basis =
                       DictSet(@, "journal_info", clean_text(journal_cell.val.text))]
             ELSE st1

RECURSIVE BasisRowsFrom(_, _, _)
\* `for row in rows` from the i-th row on
BasisRowsFrom(rows, i, st) ==
    IF i > Len(rows) THEN st
    ELSE BasisRowsFrom(rows, i + 1, BasisRowInto(st, rows[i]))

\* extract_document_basis, for a document in which the table is found
extract_document_basis(rows) ==
    LET st == BasisRowsFrom(rows, 1, [result |-> << >>, current_basis |-> << >>])
    IN  IF DOMAIN st.current_basis # {}
        THEN Append(st.result, st.current_basis)
        ELSE st.result

InitBasis ==
    /\ input \in BasisTables
    /\ output = [done |-> FALSE]
    /\ ScrapeUnused
    /\ click = Unused
    /\ lookups = Unused
    /\ files = Unused

ExtractDocumentBasis ==
    /\ ~output.done
    /\ output' = [done |-> TRUE,
                  res  |-> extract_document_basis(<<TitleRow>> \o input)]
    /\ UNCHANGED <<scrapeVars, click, input, lookups, files>>

NextBasis == ExtractDocumentBasis

SpecBasis == InitBasis /\ [][NextBasis]_vars

\* the rows of the table with their positions counted below the title row
RowHas(i, Matches(_)) == SelectIn(input[i], Matches) # {}

\* the k-th smallest member of a set of row positions
KthOf(S, k) == CHOOSE s \in S : Cardinality({ t \in S : t <= s }) = k

\* the rows that hold a cell with a rowspan attribute
SpanRows == { i \in 1..Len(input) : RowHas(i, HasRowspan) }

(* C31 as stated: one entry per row that holds a row-span cell, in         *)
(* document order, with the text of that cell as basis_number and the      *)
(* text of the cell after it, when there is one, as document_description.  *)
C31_OnePerRowSpanRow ==
    output.done =>
        /\ Len(output.res) = Cardinality(SpanRows)
        /\ \A k \in 1..Cardinality(SpanRows) :
              LET row == input[KthOf(SpanRows, k)]
                  j == CHOOSE p \in SelectIn(row, HasRowspan) :
                          \A q \in SelectIn(row, HasRowspan) : p <= q
              IN  /\ output.res[k]["basis_number"] = clean_text(row[j].text)
                  /\ j < Len(row) =>
                        /\ "document_description" \in DOMAIN output.res[k]
                        /\ output.res[k]["document_description"]
                              = clean_text(row[j + 1].text)

\* the rows that start an entry: a cell with rowspan="2"
StartRows == { i \in 1..Len(input) : RowHas(i, LAMBDA c : c.rowspan = "2") }

\* the rows that give journal_info: no cell with a rowspan, and a csDane cell
JournalRows ==
    { i \in 1..Len(input) :
        /\ ~RowHas(i, HasRowspan)
        /\ RowHas(i, LAMBDA c : c.class = "csDane") }

FirstText(row, Matches(_)) ==
    row[CHOOSE p \in SelectIn(row, Matches) :
            \A q \in SelectIn(row, Matches) : p <= q].text

\* the entry started by row s
EntryOf(s) ==
    LET later == { t \in StartRows : t > s }
        upto == IF later = {} THEN Len(input) ELSE KthOf(later, 1) - 1
        journals == { i \in JournalRows : s < i /\ i <= upto }
        number == "basis_number" :>
                      clean_text(FirstText(input[s], LAMBDA c : c.rowspan = "2"))
        description ==
            IF RowHas(s, LAMBDA c : c.class = "csNDBDane")
            THEN "document_description" :>
                     clean_text(FirstText(input[s], LAMBDA c : c.class = "csNDBDane"))
            ELSE << >>
        journal ==
            IF journals = {} THEN << >>
            ELSE "journal_info" :>
                     clean_text(FirstText(input[KthOf(journals, Cardinality(journals))],
                                          LAMBDA c : c.class = "csDane" /\ c.rowspan = ""))
    IN  number @@ description @@ journal

(* C31, amended: one entry per row that holds a cell with rowspan="2", in  *)
(* document order; basis_number is the cleaned text of the first such      *)
(* cell, document_description that of the first csNDBDane cell of the      *)
(* row (absent without one), journal_info that of the first csDane cell    *)
(* without rowspan of the last row, between the start of the entry and     *)
(* the start of the next, that holds no cell with a rowspan (absent        *)
(* without one); the last entry is emitted at the end.                     *)
C31_DocumentBasis ==
    output.done =>
        /\ Len(output.res) = Cardinality(StartRows)
        /\ \A k \in 1..Cardinality(StartRows) :
              output.res[k] = EntryOf(KthOf(StartRows, k))

\* two entries; the first has a description and a journal line, the second
\* closes it and is emitted at the end
C31_Witness ==
    /\ output.done
    /\ input = << << BasisCell("csDane", "2", <<" ", "1">>),
                     BasisCell("csNDBDane", "", <<"d">>) >>,
                  << BasisCell("csDane", "", <<"j">>) >>,
                  << BasisCell("csDane", "2", <<" ", "1">>) >> >>
    /\ output.res = << ("basis_number" :> <<"1">>)
                        @@ ("document_description" :> <<"d">>)
                        @@ ("journal_info" :> <<"j">>),
                       ("basis_number" :> <<"1">>) >>

-----------------------------------------------------------------------------
(* Claims about what scrape_ekw submits and reports (Spec)                 *)

(* C32: the register number typed into the search form by fill_kw_form is  *)
(* the number of the request without its leading zeros, while kw_number    *)
(* in the response keeps them.                                             *)
C32_ZerosStrippedOnSubmit ==
    /\ \A i \in CallsOf("fill_kw_form") :
          calls[i].ret = "ok" =>
              calls[i].arg = LStripZeros(request.numer_ksiegi_wieczystej)
    /\ Returned => result.response.kw_number = KwNumber(request)

(* C33: cleaning keeps the section data: after clean_scraped_data the      *)
(* response has exactly the sections process_all_sections produced, and    *)
(* the content of each is still the content its department parser (or the  *)
(* error handler) produced, with its error marker unchanged.               *)
C33_CleaningKeepsContent ==
    (Returned /\ result.response.success
              /\ Called(Call("clean_scraped_data", << >>, "ok"))) =>
        \A k \in SectionKeys :
            /\ result.response[k].some <=> sections[k].some
            /\ sections[k].some =>
                  /\ result.response[k].val.content.source
                        = sections[k].val.content.source
                  /\ result.response[k].val.content.error
                        = sections[k].val.content.error

-----------------------------------------------------------------------------
(* One call of process_section, step by step (SpecSection)                 *)
(*                                                                         *)
(* input is what the browser does during the call: whether click_element   *)
(* succeeds, whether #contentDzialu becomes visible within the timeout,    *)
(* what query_selector("#contentDzialu") finds afterwards (nothing, or an  *)
(* element with some markup, possibly the one the previous department      *)
(* left), and whether the parser raises. output is the progress of the     *)
(* call.                                                                   *)

SectionEnvs ==
    [name          : SectionKeys,
     click_success : BOOLEAN,
     visible       : BOOLEAN,
     region        : {None} \cup { Some(m) : m \in Markups },
     parser_raises : BOOLEAN]

\* extract_html_content (browser.py): the inner markup of the element the
\* selector finds, "" when it finds none
extract_html_content(region) == IF region.some THEN region.val ELSE << >>

InitSection ==
    /\ input \in SectionEnvs
    /\ output = [pc |-> "click", waited |-> None, html_content |-> None,
                 parsed |-> FALSE, ret |-> None]
    /\ ScrapeUnused
    /\ click = Unused
    /\ lookups = Unused
    /\ files = Unused

\* lines 295-301: the click; on False the call returns None
SectionClick ==
    /\ output.pc = "click"
    /\ output' = IF input.click_success
                 THEN [output EXCEPT !.pc = "wait"]
                 ELSE [output EXCEPT
                          !.pc  = "done",
                          !.ret = Some(process_section(input.name, "click_failed",
                                          << >>, Exc("Exception", << >>)).value)]
    /\ UNCHANGED <<scrapeVars, click, input, lookups, files>>

\* line 304: `await wait_for_element(page, "#contentDzialu")`, the value
\* returned is not used
SectionWait ==
    /\ output.pc = "wait"
    /\ output' = [output EXCEPT
                     !.pc = "extract",
                     !.waited = Some(wait_for_element(input.visible).value)]
    /\ UNCHANGED <<scrapeVars, click, input, lookups, files>>

\* line 307
SectionExtract ==
    /\ output.pc = "extract"
    /\ output' = [output EXCEPT
                     !.pc = "parse",
                     !.html_content = Some(extract_html_content(input.region))]
    /\ UNCHANGED <<scrapeVars, click, input, lookups, files>>

\* lines 310-318: the parser of the department, and the handler that turns
\* its exception into None
SectionParse ==
    /\ output.pc = "parse"
    /\ output' = [output EXCEPT
                     !.pc = "done",
                     !.parsed = TRUE,
                     !.ret = Some(process_section(input.name,
                                     IF input.parser_raises THEN "raised" ELSE "parsed",
                                     output.html_content.val,
                                     Exc("Exception", << >>)).value)]
    /\ UNCHANGED <<scrapeVars, click, input, lookups, files>>

NextSection ==
    \/ SectionClick
    \/ SectionWait
    \/ SectionExtract
    \/ SectionParse

SpecSection == InitSection /\ [][NextSection]_vars

(* C34: when the wait for #contentDzialu times out, process_section does   *)
(* not run the parser on what the page shows and does not return a         *)
(* section document.                                                       *)
C34_NoParseAfterTimeout ==
    output.waited = Some(FALSE) =>
        /\ ~output.parsed
        /\ output.pc = "done" => output.ret = Some(None)

-----------------------------------------------------------------------------
(* Screenshots and leftover processes of scrape_ekw (Spec)                 *)

(* C35: a failing screenshot does not change the outcome of the lookup:    *)
(* once the results have loaded (the wait for #przyciskWydrukZwykly gave   *)
(* True) a call that is not cancelled goes on to open the content view,    *)
(* whether the screenshot of the results page succeeds or fails, and does  *)
(* not end as a search timeout or a search error.                          *)
C35_ScreenshotFailureHarmless ==
    (Finished /\ ~Cancelled
       /\ Called(Call("wait_for_element", <<"#przyciskWydrukZwykly">>, "True"))) =>
        /\ ViewContentAttempted
        /\ pending # Return(FailureResponse(request, SearchTimeoutText))

(* C36: when scrape_ekw finishes without having been cancelled, no driver  *)
(* and no browser that the call started is left running, also when         *)
(* initialize_browser failed partway and when close_browser raised.        *)
C36_NothingLeftRunning ==
    (Finished /\ ~Cancelled) => running = {}

-----------------------------------------------------------------------------
(* Repeated clicks of click_element (SpecClick)                            *)

\* the passes in which page.click(selector) is called (line 524)
ClickCalled(outcome) ==
    outcome \in {"click_raised", "navigation_timeout", "navigated"}

\* the passes in which the click reached the page
ClickDelivered(outcome) == outcome \in {"navigation_timeout", "navigated"}

(* C37: for a control other than the view-content button, a pass whose     *)
(* click was delivered to the page and which failed in the wait that       *)
(* follows is never followed by a pass that clicks the control again.      *)
C37_NoSecondClick ==
    ~is_critical_button(click.selector) =>
        \A i \in 1..(Len(click.attempts) - 1) :
            (ClickDelivered(click.attempts[i]) /\ ~AttemptSucceeds(click.attempts[i]))
                => ~ClickCalled(click.attempts[i + 1])

-----------------------------------------------------------------------------
(* The two owner-extraction paths of parse_dzial_ii (SpecOwnerPaths)       *)
(*                                                                         *)
(* The tables have one cell in each row; the page shows the same table     *)
(* as the markup handed to the function.                                   *)

MaxPathRows == 7

PathCells == {"JAN CZLONKOWSKI 80010112345", NestedOwnerCell, LpText, "x"}

PathTables ==
    [rows   : UNION { [1..n -> [1..1 -> PathCells]] : n \in 1..MaxPathRows },
     spaced : BOOLEAN]

RECURSIVE ScriptWalk(_, _)
\* lines 491-500: `while (previousRow)` over previousElementSibling, which
\* skips text nodes, up to the first row whose text has a position marker
ScriptWalk(rows, r) ==
    IF r = 1 THEN None
    ELSE IF FirstLpCell(rows[r - 1]).some THEN FirstLpCell(rows[r - 1])
    ELSE ScriptWalk(rows, r - 1)

RECURSIVE ScriptOwnersFrom(_, _, _)
\* lines 475-503: one record for each td whose textContent matches, in
\* document order; i counts the records made so far (rows hold one cell)
ScriptOwnersFrom(rows, r, i) ==
    IF r > Len(rows) THEN << >>
    ELSE IF IsOwnerCell(rows[r][1])
    THEN <<OwnerRecord(i + 1, TextOf(rows[r][1]), ScriptWalk(rows, r))>>
         \o ScriptOwnersFrom(rows, r + 1, i + 1)
    ELSE ScriptOwnersFrom(rows, r + 1, i)

\* lines 425-512: content["tables"]; the script runs `if not content["tables"]`
\* and its list replaces the empty one when it is not empty
owner_tables(table) ==
    LET markup == parse_owners(table)
    IN  IF markup.raised THEN [path |-> "markup", res |-> markup]
        ELSE IF markup.value # << >> THEN [path |-> "markup", res |-> markup]
        ELSE [path |-> "script",
              res  |-> Value(ScriptOwnersFrom(table.rows, 1, 0))]

InitOwnerPaths ==
    /\ input \in PathTables
    /\ output = [done |-> FALSE]
    /\ ScrapeUnused
    /\ click = Unused
    /\ lookups = Unused
    /\ files = Unused

ParseDzialII ==
    /\ ~output.done
    /\ output' = [done |-> TRUE] @@ owner_tables(input)
    /\ UNCHANGED <<scrapeVars, click, input, lookups, files>>

NextOwnerPaths == ParseDzialII

SpecOwnerPaths == InitOwnerPaths /\ [][NextOwnerPaths]_vars

\* the records the markup path is to give for a table of one-cell rows:
\* one for each matching cell, in document order, with the position number
\* of the nearest marker among the WalkLimit rows before it
RECURSIVE SpecifiedOwnersFrom(_, _, _)
SpecifiedOwnersFrom(rows, r, i) ==
    IF r > Len(rows) THEN << >>
    ELSE IF IsOwnerCell(rows[r][1])
    THEN <<OwnerRecord(i + 1, TextOf(rows[r][1]), NearestLp(rows, r, WalkLimit))>>
         \o SpecifiedOwnersFrom(rows, r + 1, i + 1)
    ELSE SpecifiedOwnersFrom(rows, r + 1, i)

(* C38: when the script fallback is used, its owner records are those the  *)
(* markup path is to give: the same cells in the same order, each with     *)
(* the position number found within the same bound of five rows back.      *)
C38_PathsAgree ==
    (output.done /\ output.path = "script") =>
        output.res = Value(SpecifiedOwnersFrom(input.rows, 1, 0))

====
